---- MODULE Spec2Model ----
(***************************************************************************)
(* A model of renpy_save_editor.py: the scalar codec (_parse_value_at,     *)
(* _encode_scalar), the bytecode patch engine (patch_variable_in_log), the *)
(* selective deserializer (SafeUnpickler, load_save_variables), the        *)
(* archive repackager (save_modified_save, as called from save_file), the  *)
(* signature engine (_signatures_for_log) and the handlers of the editor   *)
(* (load_file, save_edit, save_file).                                      *)
(*                                                                         *)
(* Conventions.  A byte buffer is a sequence over 0..255.  Positions are   *)
(* 0-based as in the Python source; At and Slice convert.  A Python value  *)
(* is a record [t, n, d, kids]:                                            *)
(*   t = "bool"   d = <<0>> or <<1>>                                       *)
(*   t = "int"    n = 1 iff negative, d = magnitude, little-endian base    *)
(*                256 digits without leading zero digit (0 is <<>>)        *)
(*   t = "float"  n = sign bit, d = <<biased exponent, top 4 fraction      *)
(*                bits, then the 6 low fraction bytes, high byte first>>   *)
(*   t = "str"    d = code points                                          *)
(*   t = "none", "list", "tuple", "dict", "set", "pair", "class", "obj"    *)
(*                containers keep their elements in kids                   *)
(* Integers are kept as digit sequences because the code handles integers  *)
(* of any magnitude (LONG4) while TLC's integers are 32 bits wide.         *)
(***************************************************************************)
EXTENDS Integers, Sequences, FiniteSets, TLC

VARIABLES
    value,      \* codec probe: the scalar handed to _encode_scalar
    encoded,    \* codec probe: [st, bytes], the outcome of _encode_scalar(value)
    decoded,    \* codec probe: the outcome of _parse_value_at(encoded.bytes, 0)
    log_bytes,  \* patch, signing: the buffer handed to the function as log_bytes
    key,        \* patch: the variable name (code points)
    new_value,  \* patch: the new value
    result,     \* patch: [st, log], the outcome of patch_variable_in_log
    reloaded,   \* patch: the outcome of reading the patched log back
    save_path,  \* load: the file handed to load_save_variables
    graph,      \* load: the object the log of save_path serializes
    loaded,     \* load: the outcome of load_save_variables(save_path)
    original_log,       \* session: self.original_log, [some, bytes]
    variables,          \* session: self.variables, a set of [k, v]
    modified_variables, \* session: self.modified_variables, [k, v] in insertion order
    modified_log,       \* session: [st, log], modified_log of save_file once folded
    fs,         \* archive: the file at each path
    src_path,   \* archive: src_path of save_modified_save
    dst_path,   \* archive: dst_path of save_modified_save
    signing,    \* archive: the signing keys found and whether ecdsa imports
    zin,        \* archive: the source handle, [open, infolist, stale]
    pc,         \* archive: the line save_modified_save has reached
    outcome,    \* archive: "none", "returned" or the exception that left it
    signatures,         \* signing: the outcome of _signatures_for_log(log_bytes)
    current_file,       \* editor: self.current_file, a path, "" before any load
    dialog              \* editor: the message box the last handler showed

codecVars == <<value, encoded, decoded>>

patchVars == <<log_bytes, key, new_value, result, reloaded>>

loadVars == <<save_path, graph, loaded>>

sessionVars == <<original_log, variables, modified_variables, modified_log>>

archiveVars == <<fs, src_path, dst_path, signing, zin, pc, outcome>>

editorVars == <<signatures, current_file, dialog>>

vars == <<codecVars, patchVars, loadVars, sessionVars, archiveVars, editorVars>>

----------------------------------------------------------------------------
(* Opcode constants, src lines 96-106 *)

BINUNICODE == 88
BININT1 == 75
BININT2 == 77
BININT == 74
BINFLOAT == 71
NEWTRUE == 136
NEWFALSE == 137
LONG1 == 138
LONG4 == 139
BINSTRING == 84
SHORT_BINSTRING == 85
OpI == 73
OpF == 70
OpS == 83
NL == 10

----------------------------------------------------------------------------
(* Bytes and buffers *)

Min(S) == CHOOSE x \in S : \A y \in S : x <= y

Max(S) == CHOOSE x \in S : \A y \in S : x >= y

Clamp(i, n) == IF i < 0 THEN 0 ELSE IF i > n THEN n ELSE i

\* data[i] for a 0-based index inside the buffer
At(data, i) == data[i + 1]

\* data[a:b] with Python's clamping of the bounds (a, b >= 0)
Slice(data, a, b) ==
    LET n == Len(data)
        lo == Clamp(a, n)
        hi == Clamp(b, n)
    IN IF hi <= lo THEN <<>> ELSE SubSeq(data, lo + 1, hi)

\* data[a:]
From(data, a) == Slice(data, a, Len(data))

\* bytes.find(sub, start): the lowest index >= start where sub occurs, or -1
Find(data, sub, start) ==
    LET c == {i \in start .. (Len(data) - Len(sub)) :
                 Slice(data, i, i + Len(sub)) = sub}
    IN IF c = {} THEN -1 ELSE Min(c)

Zeros(k) == [i \in 1 .. k |-> 0]

Rep(b, k) == [i \in 1 .. k |-> b]

----------------------------------------------------------------------------
(* Python values *)

Val(t, n, d) == [t |-> t, n |-> n, d |-> d, kids |-> <<>>]

Box(t, d, kids) == [t |-> t, n |-> 0, d |-> d, kids |-> kids]

PyNone == Val("none", 0, <<>>)

PyTrue == Val("bool", 0, <<1>>)

PyFalse == Val("bool", 0, <<0>>)

PyStr(cps) == Val("str", 0, cps)

PyFloat(sign, exp, top, low) == Val("float", sign, <<exp, top>> \o low)

RECURSIVE StripZeros(_)
StripZeros(d) ==
    IF d = <<>> THEN d
    ELSE IF d[Len(d)] = 0 THEN StripZeros(SubSeq(d, 1, Len(d) - 1))
    ELSE d

\* the int with sign n and magnitude digits d (normalised: no -0)
PyInt(n, d) ==
    LET m == StripZeros(d) IN Val("int", IF m = <<>> THEN 0 ELSE n, m)

\* the digits of a natural number below 2^31
RECURSIVE Digits(_)
Digits(x) == IF x = 0 THEN <<>> ELSE <<x % 256>> \o Digits(x \div 256)

Nat2Int(x) == PyInt(0, Digits(x))

\* -1, 0, 1 as the magnitude a is below, equal to, above the magnitude b
RECURSIVE CmpMag(_, _)
CmpMag(a, b) ==
    IF Len(a) # Len(b) THEN (IF Len(a) < Len(b) THEN -1 ELSE 1)
    ELSE IF a = <<>> THEN 0
    ELSE IF a[Len(a)] # b[Len(b)] THEN (IF a[Len(a)] < b[Len(b)] THEN -1 ELSE 1)
    ELSE CmpMag(SubSeq(a, 1, Len(a) - 1), SubSeq(b, 1, Len(b) - 1))

\* v <= w on Python ints
IntLe(v, w) ==
    IF v.n = 1 /\ w.n = 0 THEN TRUE
    ELSE IF v.n = 0 /\ w.n = 1 THEN FALSE
    ELSE IF v.n = 0 THEN CmpMag(v.d, w.d) <= 0
    ELSE CmpMag(v.d, w.d) >= 0

\* the number of significant bits of a byte
BitsOf(b) ==
    IF b = 0 THEN 0 ELSE IF b < 2 THEN 1 ELSE IF b < 4 THEN 2 ELSE IF b < 8 THEN 3
    ELSE IF b < 16 THEN 4 ELSE IF b < 32 THEN 5 ELSE IF b < 64 THEN 6
    ELSE IF b < 128 THEN 7 ELSE 8

\* int.bit_length()
BitLength(v) ==
    IF v.d = <<>> THEN 0 ELSE 8 * (Len(v.d) - 1) + BitsOf(v.d[Len(v.d)])

\* bs + 1 modulo 256^Len(bs)
RECURSIVE AddOne(_)
AddOne(bs) ==
    IF bs = <<>> THEN bs
    ELSE IF bs[1] = 255 THEN <<0>> \o AddOne(Tail(bs))
    ELSE <<bs[1] + 1>> \o Tail(bs)

\* the two's complement of bs at its own width
TwosNeg(bs) == AddOne([i \in 1 .. Len(bs) |-> 255 - bs[i]])

\* int.to_bytes(k, 'little', signed=True), for a k the value fits in
ToBytesSigned(v, k) ==
    LET m == v.d \o Zeros(k - Len(v.d))
    IN IF v.n = 1 THEN TwosNeg(m) ELSE m

\* int.from_bytes(bs, 'little', signed=True)
FromBytesSigned(bs) ==
    IF bs = <<>> THEN PyInt(0, <<>>)
    ELSE IF bs[Len(bs)] >= 128 THEN PyInt(1, TwosNeg(bs))
    ELSE PyInt(0, bs)

\* struct.pack('<I', k) for a length k below 2^31
PackU32(k) ==
    <<k % 256, (k \div 256) % 256, (k \div 65536) % 256, (k \div 16777216) % 256>>

\* Lengths at or above 2^30 are all reported as HugeLen: no buffer of the model
\* is that long, so every comparison the code makes with them is unchanged.
HugeLen == 1073741824

\* struct.unpack('<I', bs)[0], capped at HugeLen
UnpackU32(bs) ==
    IF bs[4] >= 64 THEN HugeLen
    ELSE bs[1] + 256 * bs[2] + 65536 * bs[3] + 16777216 * bs[4]

\* struct.pack('>d', x) on the fields of the double
PackDouble(v) ==
    <<v.n * 128 + (v.d[1] \div 16), (v.d[1] % 16) * 16 + v.d[2]>>
        \o SubSeq(v.d, 3, 8)

\* struct.unpack('>d', bs)[0]
UnpackDouble(bs) ==
    PyFloat(bs[1] \div 128, (bs[1] % 128) * 16 + (bs[2] \div 16), bs[2] % 16,
            SubSeq(bs, 3, 8))

----------------------------------------------------------------------------
(* The text forms int() and float() accept, for the legacy line opcodes *)

IsDigit(b) == b >= 48 /\ b <= 57

\* the characters str.strip() and int()/float() treat as blanks, in ASCII
IsBlank(b) == b \in {9, 10, 11, 12, 13, 32}

IsSign(b) == b = 43 \/ b = 45

RECURSIVE StripLeft(_)
StripLeft(s) ==
    IF s # <<>> /\ IsBlank(s[1]) THEN StripLeft(Tail(s)) ELSE s

RECURSIVE StripRight(_)
StripRight(s) ==
    IF s # <<>> /\ IsBlank(s[Len(s)]) THEN StripRight(SubSeq(s, 1, Len(s) - 1))
    ELSE s

StripBlanks(s) == StripRight(StripLeft(s))

DropSign(s) == IF s # <<>> /\ IsSign(s[1]) THEN Tail(s) ELSE s

DigitAt(s, i) == i >= 1 /\ i <= Len(s) /\ IsDigit(s[i])

\* s[i] is a digit: the index after the run digit ('_'? digit)* that starts there
RECURSIVE DigitEnd(_, _)
DigitEnd(s, i) ==
    IF DigitAt(s, i + 1) THEN DigitEnd(s, i + 1)
    ELSE IF i + 1 <= Len(s) /\ s[i + 1] = 95 /\ DigitAt(s, i + 2)
         THEN DigitEnd(s, i + 2)
    ELSE i + 1

Lower(b) == IF b >= 65 /\ b <= 90 THEN b + 32 ELSE b

LowerAll(s) == [i \in 1 .. Len(s) |-> Lower(s[i])]

IsAscii(s) == \A i \in 1 .. Len(s) : s[i] < 128

\* d * m + c on digit sequences, for small m and c
RECURSIVE MulAdd(_, _, _)
MulAdd(d, m, c) ==
    IF d = <<>> THEN Digits(c)
    ELSE LET x == d[1] * m + c
         IN <<x % 256>> \o MulAdd(Tail(d), m, x \div 256)

\* the magnitude a run of decimal digits (with '_') denotes, acc so far
RECURSIVE DecimalMag(_, _)
DecimalMag(s, acc) ==
    IF s = <<>> THEN acc
    ELSE IF s[1] = 95 THEN DecimalMag(Tail(s), acc)
    ELSE DecimalMag(Tail(s), MulAdd(acc, 10, s[1] - 48))

\* int(txt.decode('ascii')) succeeds
IntTextOk(txt) ==
    LET b == DropSign(StripBlanks(txt))
    IN IsAscii(txt) /\ DigitAt(b, 1) /\ DigitEnd(b, 1) = Len(b) + 1

\* int(txt.decode('ascii'))
IntTextValue(txt) ==
    LET s == StripBlanks(txt)
        b == DropSign(s)
    IN PyInt(IF s[1] = 45 THEN 1 ELSE 0, StripZeros(DecimalMag(b, <<>>)))

\* the index after the mantissa digits[.digits] or .digits at the start of b, 0 if none
MantissaEnd(b) ==
    IF DigitAt(b, 1)
    THEN LET p == DigitEnd(b, 1)
         IN IF p <= Len(b) /\ b[p] = 46
            THEN (IF DigitAt(b, p + 1) THEN DigitEnd(b, p + 1) ELSE p + 1)
            ELSE p
    ELSE IF b # <<>> /\ b[1] = 46 /\ DigitAt(b, 2) THEN DigitEnd(b, 2)
    ELSE 0

\* from index p on, b is empty or an exponent (e|E) [sign] digits
ExponentOk(b, p) ==
    \/ p = Len(b) + 1
    \/ /\ p <= Len(b)
       /\ Lower(b[p]) = 101
       /\ LET q == IF p + 1 <= Len(b) /\ IsSign(b[p + 1]) THEN p + 2 ELSE p + 1
          IN DigitAt(b, q) /\ DigitEnd(b, q) = Len(b) + 1

\* float(txt.decode('ascii')) succeeds
FloatTextOk(txt) ==
    LET b == DropSign(StripBlanks(txt))
    IN /\ IsAscii(txt)
       /\ \/ LowerAll(b) \in {<<105, 110, 102>>, <<110, 97, 110>>,
                              <<105, 110, 102, 105, 110, 105, 116, 121>>}
          \/ MantissaEnd(b) # 0 /\ ExponentOk(b, MantissaEnd(b))

\* float(txt.decode('ascii')): the float the text denotes, kept as its text
\* (no operation of the program inspects the value of a legacy float)
FloatTextValue(txt) == Val("floattext", 0, StripBlanks(txt))

\* s.replace("\\'", "'")
RECURSIVE Unescape(_)
Unescape(s) ==
    IF s = <<>> THEN s
    ELSE IF Len(s) >= 2 /\ s[1] = 92 /\ s[2] = 39
         THEN <<39>> \o Unescape(SubSeq(s, 3, Len(s)))
    ELSE <<s[1]>> \o Unescape(Tail(s))

----------------------------------------------------------------------------
(* Scalar codec *)

NoScalar == [ok |-> FALSE, v |-> PyNone, end |-> 0, tag |-> "None"]

Scalar(v, end, tag) == [ok |-> TRUE, v |-> v, end |-> end, tag |-> tag]

\* the part of _parse_value_at for the newline-terminated text opcodes
ParseLine(data, pos, op) ==
    LET end == Find(data, <<NL>>, pos)
        txt == Slice(data, pos + 1, end)
    IN IF end = -1 THEN NoScalar
       ELSE IF op = OpI
            THEN (IF IntTextOk(txt) THEN Scalar(IntTextValue(txt), end + 1, "INT")
                  ELSE NoScalar)
       ELSE IF op = OpF
            THEN (IF FloatTextOk(txt)
                  THEN Scalar(FloatTextValue(txt), end + 1, "FLOAT")
                  ELSE NoScalar)
       ELSE IF IsAscii(txt) /\ txt # <<>> /\ txt[1] = 39 /\ txt[Len(txt)] = 39
            THEN Scalar(PyStr(Unescape(Slice(txt, 1, Len(txt) - 1))), end + 1,
                        "STRING")
       ELSE NoScalar

\* the part of _parse_value_at for the length-prefixed opcodes
ParseCounted(data, pos, op) ==
    LET n == Len(data)
        wide == op \in {LONG4, BINSTRING}
        hdr == IF wide THEN 5 ELSE 2
        ln == IF wide THEN UnpackU32(Slice(data, pos + 1, pos + 5))
              ELSE At(data, pos + 1)
        body == Slice(data, pos + hdr, pos + hdr + ln)
    IN IF pos + hdr <= n /\ pos + hdr + ln <= n
       THEN (IF op = LONG1 THEN Scalar(FromBytesSigned(body), pos + 2 + ln, "LONG1")
             ELSE IF op = LONG4
                  THEN Scalar(FromBytesSigned(body), pos + 5 + ln, "LONG4")
             ELSE IF op = BINSTRING
                  THEN Scalar(PyStr(body), pos + 5 + ln, "BINSTRING")
             ELSE Scalar(PyStr(body), pos + 2 + ln, "SHORT_BINSTRING"))
       ELSE NoScalar

\* _parse_value_at(data, pos): [ok, v, end, tag], ok = FALSE for None
_parse_value_at(data, pos) ==
    LET n == Len(data)
        op == At(data, pos)
    IN IF pos >= n THEN NoScalar
       ELSE IF op = BININT1 /\ pos + 2 <= n
            THEN Scalar(PyInt(0, <<At(data, pos + 1)>>), pos + 2, "BININT1")
       ELSE IF op = BININT2 /\ pos + 3 <= n
            THEN Scalar(PyInt(0, Slice(data, pos + 1, pos + 3)), pos + 3, "BININT2")
       ELSE IF op = BININT /\ pos + 5 <= n
            THEN Scalar(FromBytesSigned(Slice(data, pos + 1, pos + 5)), pos + 5,
                        "BININT")
       ELSE IF op = BINFLOAT /\ pos + 9 <= n
            THEN Scalar(UnpackDouble(Slice(data, pos + 1, pos + 9)), pos + 9,
                        "BINFLOAT")
       ELSE IF op = NEWTRUE THEN Scalar(PyTrue, pos + 1, "BOOL")
       ELSE IF op = NEWFALSE THEN Scalar(PyFalse, pos + 1, "BOOL")
       ELSE IF op \in {OpI, OpF, OpS} THEN ParseLine(data, pos, op)
       ELSE IF op \in {LONG1, LONG4, BINSTRING, SHORT_BINSTRING}
            THEN ParseCounted(data, pos, op)
       ELSE NoScalar

\* str.encode('latin1', 'replace')
EncodeLatin1Replace(cps) ==
    [i \in 1 .. Len(cps) |-> IF cps[i] > 255 THEN 63 ELSE cps[i]]

Int32Min == PyInt(1, <<0, 0, 0, 128>>)

Int32Max == PyInt(0, <<255, 255, 255, 127>>)

\* a faulty EncodeInt, against which C3 is tested: the 2-byte form is missing
EncodeIntNoShort(v) ==
    IF IntLe(Nat2Int(0), v) /\ IntLe(v, Nat2Int(255))
    THEN <<BININT1>> \o ToBytesSigned(v, 1)
    ELSE IF IntLe(Int32Min, v) /\ IntLe(v, Int32Max)
    THEN <<BININT>> \o ToBytesSigned(v, 4)
    ELSE LET k == (BitLength(v) + 8) \div 8
             mag == ToBytesSigned(v, IF k = 0 THEN 1 ELSE k)
         IN <<LONG4>> \o PackU32(Len(mag)) \o mag

\* the integer branch of _encode_scalar
EncodeInt(v) ==
    IF IntLe(Nat2Int(0), v) /\ IntLe(v, Nat2Int(255))
    THEN <<BININT1>> \o ToBytesSigned(v, 1)
    ELSE IF IntLe(Nat2Int(0), v) /\ IntLe(v, Nat2Int(65535))
    THEN <<BININT2>> \o ToBytesSigned(v, 2)
    ELSE IF IntLe(Int32Min, v) /\ IntLe(v, Int32Max)
    THEN <<BININT>> \o ToBytesSigned(v, 4)
    ELSE LET k == (BitLength(v) + 8) \div 8
             mag == ToBytesSigned(v, IF k = 0 THEN 1 ELSE k)
         IN <<LONG4>> \o PackU32(Len(mag)) \o mag

\* the string branch of _encode_scalar
EncodeStr(v) ==
    LET e == EncodeLatin1Replace(v.d)
    IN IF Len(e) <= 255 THEN <<SHORT_BINSTRING, Len(e)>> \o e
       ELSE <<BINSTRING>> \o PackU32(Len(e)) \o e

\* _encode_scalar(value): [st, bytes], st = "ValueError" when it raises
_encode_scalar(v) ==
    IF v.t = "bool"
    THEN [st |-> "ok", bytes |-> IF v = PyTrue THEN <<NEWTRUE>> ELSE <<NEWFALSE>>]
    ELSE IF v.t = "int" THEN [st |-> "ok", bytes |-> EncodeInt(v)]
    ELSE IF v.t = "float" THEN [st |-> "ok", bytes |-> <<BINFLOAT>> \o PackDouble(v)]
    ELSE IF v.t = "str" THEN [st |-> "ok", bytes |-> EncodeStr(v)]
    ELSE [st |-> "ValueError", bytes |-> <<>>]

----------------------------------------------------------------------------
(* Codec round trip: Init draws a value, Encode applies _encode_scalar,    *)
(* Decode applies _parse_value_at to the bytes at offset 0.                *)

\* strings of length 255 - StrEdge .. 255 + StrEdge straddle the 1-byte length
StrEdge == 1

IntsU8 == {PyInt(0, <<>>), PyInt(0, <<1>>), PyInt(0, <<127>>), PyInt(0, <<128>>),
           PyInt(0, <<255>>)}

IntsU16 == {PyInt(0, <<0, 1>>), PyInt(0, <<1, 1>>), PyInt(0, <<255, 127>>),
            PyInt(0, <<0, 128>>), PyInt(0, <<255, 255>>)}

IntsS32 == {PyInt(0, <<0, 0, 1>>), PyInt(0, <<255, 255, 255>>),
            PyInt(0, <<0, 0, 0, 1>>), PyInt(0, <<255, 255, 255, 127>>),
            PyInt(1, <<1>>), PyInt(1, <<128>>), PyInt(1, <<255>>),
            PyInt(1, <<0, 1>>), PyInt(1, <<255, 255>>), PyInt(1, <<0, 0, 1>>),
            PyInt(1, <<255, 255, 255, 127>>), PyInt(1, <<0, 0, 0, 128>>)}

IntsBig == {PyInt(0, <<0, 0, 0, 128>>), PyInt(0, <<255, 255, 255, 255>>),
            PyInt(1, <<1, 0, 0, 128>>), PyInt(1, <<255, 255, 255, 255>>),
            PyInt(0, <<0, 0, 0, 0, 1>>), PyInt(1, <<0, 0, 0, 0, 1>>),
            PyInt(0, <<255, 255, 255, 255, 127>>), PyInt(0, <<0, 0, 0, 0, 128>>),
            PyInt(1, <<0, 0, 0, 0, 128>>), PyInt(1, <<1, 0, 0, 0, 128>>),
            PyInt(0, <<255, 255, 255, 255, 255, 255, 255, 127>>),
            PyInt(1, <<0, 0, 0, 0, 0, 0, 0, 128>>),
            PyInt(0, <<0, 0, 0, 0, 0, 0, 0, 0, 1>>)}

\* 0.0, -0.0, 1.0, -1.5, 0.1, the largest double, the smallest subnormal, inf
Floats == {PyFloat(0, 0, 0, Zeros(6)), PyFloat(1, 0, 0, Zeros(6)),
           PyFloat(0, 1023, 0, Zeros(6)), PyFloat(1, 1023, 8, Zeros(6)),
           PyFloat(0, 1019, 9, <<153, 153, 153, 153, 153, 154>>),
           PyFloat(0, 2046, 15, Rep(255, 6)),
           PyFloat(0, 0, 0, <<0, 0, 0, 0, 0, 1>>), PyFloat(0, 2047, 0, Zeros(6))}

\* "", "hello", "A\xe9\xff", "'\n", and strings around 255 characters
Latin1Strings ==
    {PyStr(<<>>), PyStr(<<104, 101, 108, 108, 111>>), PyStr(<<65, 233, 255>>),
     PyStr(<<39, 10>>)}
    \cup {PyStr(Rep(97, k)) : k \in (255 - StrEdge) .. (255 + StrEdge)}

\* strings with a code point latin-1 has no byte for
WideStrings == {PyStr(<<8364>>), PyStr(<<97, 256>>)}

\* values of a type _encode_scalar does not accept
OtherValues == {PyNone, Box("list", <<>>, <<>>)}

Ints == IntsU8 \cup IntsU16 \cup IntsS32 \cup IntsBig

SupportedScalars == {PyTrue, PyFalse} \cup Ints \cup Floats \cup Latin1Strings

CodecValues == SupportedScalars \cup WideStrings \cup OtherValues

NotEncoded == [st |-> "pending", bytes |-> <<>>]

NotDecoded == [ok |-> FALSE, v |-> PyNone, end |-> -1, tag |-> "pending"]

NoLog == [some |-> FALSE, bytes |-> <<>>]

NotPatched == [st |-> "pending", log |-> <<>>]

NotLoaded == [variables |-> {}, log |-> NoLog, raised |-> "none", dialog |-> "pending"]

NoFile == [state |-> "absent", entries |-> <<>>]

NoHandle == [open |-> FALSE, infolist |-> <<>>, stale |-> FALSE]

NotSigned == [st |-> "pending", bytes |-> <<>>]

NoStore == [state |-> "absent", lines |-> <<>>]

\* the candidates list of _find_security_keys has six paths
NumCandidates == 6

NoSigning ==
    [stores |-> [p \in 1 .. NumCandidates |-> NoStore], encoding |-> "utf-8",
     ecdsa |-> FALSE]

\* the variables of the other specifications, at rest
CodecIdle == value = PyNone /\ encoded = NotEncoded /\ decoded = NotDecoded

PatchIdle ==
    /\ log_bytes = <<>>
    /\ key = <<>>
    /\ new_value = PyNone
    /\ result = NotPatched
    /\ reloaded = NotLoaded

LoadIdle == save_path = NoFile /\ graph = <<>> /\ loaded = NotLoaded

SessionIdle ==
    /\ original_log = NoLog
    /\ variables = {}
    /\ modified_variables = <<>>
    /\ modified_log = NotPatched

ArchiveIdle ==
    /\ fs = [p \in {"current", "other"} |-> NoFile]
    /\ src_path = "current"
    /\ dst_path = "current"
    /\ signing = NoSigning
    /\ zin = NoHandle
    /\ pc = [at |-> "idle", i |-> 0]
    /\ outcome = "none"

EditorIdle == signatures = NotSigned /\ current_file = "" /\ dialog = "none"

CodecInit ==
    /\ PatchIdle /\ LoadIdle /\ SessionIdle /\ ArchiveIdle /\ EditorIdle
    /\ value \in CodecValues
    /\ encoded = NotEncoded
    /\ decoded = NotDecoded

Encode ==
    /\ encoded = NotEncoded
    /\ encoded' = _encode_scalar(value)
    /\ UNCHANGED <<value, decoded, patchVars, loadVars, sessionVars, archiveVars, editorVars>>

Decode ==
    /\ encoded.st = "ok"
    /\ decoded = NotDecoded
    /\ decoded' = _parse_value_at(encoded.bytes, 0)
    /\ UNCHANGED <<value, encoded, patchVars, loadVars, sessionVars, archiveVars, editorVars>>

CodecNext == Encode \/ Decode

SpecCodec == CodecInit /\ [][CodecNext]_vars

\* the smallest sufficient form of each class of supported scalar
SmallestTags(v) ==
    IF v.t = "bool" THEN {"BOOL"}
    ELSE IF v \in IntsU8 THEN {"BININT1"}
    ELSE IF v \in IntsU16 THEN {"BININT2"}
    ELSE IF v \in IntsS32 THEN {"BININT"}
    ELSE IF v \in IntsBig THEN {"LONG4"}
    ELSE IF v.t = "float" THEN {"BINFLOAT"}
    ELSE {"SHORT_BINSTRING", "BINSTRING"}

\* C3: for every supported scalar v, decoding the encoding of v at offset 0
\* gives back v, ends at the end of the encoding, and reports the smallest
\* sufficient form: BININT1 for 0..255, BININT2 for 256..65535, BININT for the
\* rest of the signed 32-bit range, LONG4 beyond, BINFLOAT for floats, the
\* single-byte opcodes for booleans, a length-prefixed byte string for strings.
C3_RoundTrip ==
    (value \in SupportedScalars /\ encoded # NotEncoded) =>
        /\ encoded.st = "ok"
        /\ decoded # NotDecoded =>
              /\ decoded.ok
              /\ decoded.v = value
              /\ decoded.end = Len(encoded.bytes)
              /\ decoded.tag \in SmallestTags(value)
              /\ encoded.bytes[1] =
                    (CASE decoded.tag = "BOOL" ->
                              IF value = PyTrue THEN NEWTRUE ELSE NEWFALSE
                       [] decoded.tag = "BININT1" -> BININT1
                       [] decoded.tag = "BININT2" -> BININT2
                       [] decoded.tag = "BININT" -> BININT
                       [] decoded.tag = "LONG4" -> LONG4
                       [] decoded.tag = "BINFLOAT" -> BINFLOAT
                       [] decoded.tag = "SHORT_BINSTRING" -> SHORT_BINSTRING
                       [] decoded.tag = "BINSTRING" -> BINSTRING)

\* a value beyond 64 bits has been encoded in the LONG4 form and decoded again
C3_Witness ==
    /\ value = PyInt(0, <<0, 0, 0, 0, 0, 0, 0, 0, 1>>)
    /\ decoded.ok
    /\ decoded.tag = "LONG4"

----------------------------------------------------------------------------
(* Bytecode patch engine *)

BINPUT == 113
LONG_BINPUT == 114

\* str.encode('latin1') succeeds
Latin1Ok(cps) == \A i \in 1 .. Len(cps) : cps[i] <= 255

\* the three header checks of patch_variable_in_log for the occurrence at idx
HeaderMatched(log, idx, klen) ==
    IF idx >= 2 /\ At(log, idx - 2) = SHORT_BINSTRING
    THEN At(log, idx - 1) = klen
    ELSE IF idx >= 5 /\ At(log, idx - 5) = BINSTRING
    THEN UnpackU32(Slice(log, idx - 4, idx)) = klen
    ELSE IF idx >= 5 /\ At(log, idx - 5) = BINUNICODE
    THEN UnpackU32(Slice(log, idx - 4, idx)) = klen
    ELSE FALSE

\* while pos < n and log_bytes[pos] == op: pos += step
RECURSIVE SkipMemo(_, _, _, _)
SkipMemo(log, pos, op, step) ==
    IF pos < Len(log) /\ At(log, pos) = op THEN SkipMemo(log, pos + step, op, step)
    ELSE pos

\* the position after the BINPUT records, then the LONG_BINPUT records, at pos
ValuePos(log, pos) == SkipMemo(log, SkipMemo(log, pos, BINPUT, 2), LONG_BINPUT, 5)

PatchFailed(st) == [st |-> st, log |-> <<>>]

\* a faulty Splice, against which C1 is tested: the new encoding is written
\* over the bytes at pos, in place
SpliceInPlace(log, pos, rep, vend) ==
    Slice(log, 0, pos) \o rep \o From(log, pos + Len(rep))

\* log_bytes[:pos] + rep + log_bytes[vend:]
Splice(log, pos, rep, vend) == Slice(log, 0, pos) \o rep \o From(log, vend)

\* the while loop of patch_variable_in_log from search offset i on
RECURSIVE PatchScan(_, _, _, _, _)
PatchScan(log, key_b, v, i, matches_found) ==
    LET idx == Find(log, key_b, i)
        matched == HeaderMatched(log, idx, Len(key_b))
        pos == ValuePos(log, idx + Len(key_b))
        pv == _parse_value_at(log, pos)
        rep == _encode_scalar(v)
        exhausted ==
            IF matches_found = 0 THEN PatchFailed("VariableNotFound")
            ELSE PatchFailed("AmbiguousEncoding")
    IN IF i >= Len(log) \/ idx = -1 THEN exhausted
       ELSE IF matched /\ pv.ok
            THEN (IF rep.st = "ok"
                  THEN [st |-> "ok", log |-> Splice(log, pos, rep.bytes, pv.end)]
                  ELSE PatchFailed("CannotEncode"))
       ELSE PatchScan(log, key_b, v, idx + 1,
                      IF matched THEN matches_found + 1 ELSE matches_found)

\* patch_variable_in_log(log_bytes, key, new_value): [st, log]
patch_variable_in_log(log, k, v) ==
    IF ~ Latin1Ok(k) THEN PatchFailed("UnicodeEncodeError")
    ELSE PatchScan(log, k, v, 0, 0)

----------------------------------------------------------------------------
(* Logs as the engine's pickler writes them (protocol 2): the streams the   *)
(* patch engine and the deserializer are run on.                            *)

\* "store." followed by one more character
Store(c) == <<115, 116, 111, 114, 101, 46, c>>

\* SHORT_BINSTRING, BINSTRING, BINUNICODE records of a byte string
ShortStr(b) == <<SHORT_BINSTRING, Len(b)>> \o b

WideStr(b) == <<BINSTRING>> \o PackU32(Len(b)) \o b

Unicode(b) == <<BINUNICODE>> \o PackU32(Len(b)) \o b

Put(i) == <<BINPUT, i>>

LongPut(i) == <<LONG_BINPUT, i, 0, 0, 0>>

Int1(b) == <<BININT1, b>>

\* PROTO 2, EMPTY_DICT, BINPUT 0, MARK, the items, SETITEMS, NONE, TUPLE2, STOP:
\* the pair (roots, None) whose first component is the root mapping
Root(body) == <<128, 2, 125, 113, 0, 40>> \o body \o <<117, 78, 134, 46>>

\* {"store.a": 1, "store.b": 2}, byte-string keys
LogPlain == Root(ShortStr(Store(97)) \o Int1(1) \o ShortStr(Store(98)) \o Int1(2))

\* {"store.a": 100, "store.b": "Ann"}, unicode keys, memo records after each
LogMemo ==
    Root(Unicode(Store(97)) \o Put(1) \o Int1(100)
         \o Unicode(Store(98)) \o Put(2) \o Put(3) \o LongPut(4)
         \o ShortStr(<<65, 110, 110>>) \o Put(5))

\* {"store.b": 5} with a LONG_BINPUT before a BINPUT after the key
LogMemoOrder == Root(Unicode(Store(98)) \o LongPut(1) \o Put(2) \o Int1(5))

\* {"store.a": "store.b", "store.b": 5}, byte strings
LogShadow ==
    Root(ShortStr(Store(97)) \o ShortStr(Store(98))
         \o ShortStr(Store(98)) \o Int1(5))

\* {"store.a": "store.b", "store.b": 5}, unicode strings
LogShadowUnicode ==
    Root(Unicode(Store(97)) \o Unicode(Store(98))
         \o Unicode(Store(98)) \o Int1(5))

\* {"store.a": {"store.b": 1}, "store.b": 2}
LogNested ==
    Root(Unicode(Store(97)) \o <<125, 40>> \o Unicode(Store(98)) \o Int1(1) \o <<117>>
         \o Unicode(Store(98)) \o Int1(2))

\* {"xstore.b": 1, "store.a": 3}
LogSubstring ==
    Root(ShortStr(<<120>> \o Store(98)) \o Int1(1) \o ShortStr(Store(97)) \o Int1(3))

\* {"store.a": "Ann", "store.b": 2} with the string a BINUNICODE record
LogUnicodeValue ==
    Root(Unicode(Store(97)) \o Put(1) \o Unicode(<<65, 110, 110>>) \o Put(2)
         \o Unicode(Store(98)) \o Put(3) \o Int1(2))

\* {"store.a": 12, "store.b": 1.5} in the text forms I12\n and F1.5\n
LogLegacy ==
    Root(ShortStr(Store(97)) \o <<OpI, 49, 50, NL>>
         \o ShortStr(Store(98)) \o <<OpF, 49, 46, 53, NL>>)

\* text forms: S'hi'\n for store.a, and I1x\n (not a number) for store.b
LogLegacyString ==
    Root(ShortStr(Store(97)) \o <<OpS, 39, 104, 105, 39, NL>>
         \o ShortStr(Store(98)) \o <<OpI, 49, 120, NL>>)

\* {"store.a": -1, "store.b": 2**40}: BINSTRING keys, LONG1 and LONG4 values
LogLong ==
    Root(WideStr(Store(97)) \o <<LONG1, 1, 255>>
         \o WideStr(Store(98)) \o <<LONG4, 6, 0, 0, 0, 0, 0, 0, 0, 0, 1>>)

\* {"store.a": -1.5, "store.b": True}
LogFloatBool ==
    Root(ShortStr(Store(97)) \o <<BINFLOAT, 191, 248, 0, 0, 0, 0, 0, 0>>
         \o ShortStr(Store(98)) \o <<NEWTRUE>>)

\* {"store.a": [], "store.b": 70000}
LogList ==
    Root(Unicode(Store(97)) \o <<93>> \o Unicode(Store(98)) \o <<BININT, 112, 17, 1, 0>>)

\* a stream cut right after the key store.b
LogCutAfterKey == <<128, 2, 125, 40>> \o ShortStr(Store(98))

\* a stream cut inside the BININT2 value of store.b
LogCutInValue == <<128, 2, 125, 40>> \o ShortStr(Store(98)) \o <<BININT2, 1>>

PatchLogs ==
    {LogPlain, LogMemo, LogMemoOrder, LogShadow, LogShadowUnicode, LogNested,
     LogSubstring, LogUnicodeValue, LogLegacy, LogLegacyString, LogLong,
     LogFloatBool, LogList, LogCutAfterKey, LogCutInValue, <<>>}

\* "store.a", "store.b", "tore.b", "store.z", and "store." + EURO SIGN
PatchKeys == {Store(97), Store(98), Tail(Store(98)), Store(122), Store(8364)}

\* 250, 70000, 2**32, "store.b", "\xe9", -1.5, True, None
PatchValues ==
    {PyInt(0, <<250>>), PyInt(0, <<112, 17, 1>>), PyInt(0, <<0, 0, 0, 0, 1>>),
     PyStr(Store(98)), PyStr(<<233>>), PyFloat(1, 1023, 8, Zeros(6)), PyTrue, PyNone}

----------------------------------------------------------------------------
(* The object graph the unpickler builds.  A container value keeps its      *)
(* elements in kids (a dict keeps "pair" values); a class is kept as        *)
(* Box("class", <<>>, <<its empty instance>>); an instance of a placeholder *)
(* class is Val("proxy", n, class name) with n = 1 once __init__ has run    *)
(* (so that _list exists) and kids = _list.                                 *)

DictKinds == {"dict", "RevertableDict", "defaultdict", "OrderedDict"}

ListKinds == {"list", "RevertableList"}

SetKinds == {"set", "RevertableSet"}

SeqKinds == ListKinds \cup {"tuple"}

Mark == Val("mark", 0, <<>>)

Pair(k, v) == Box("pair", <<>>, <<k, v>>)

ClassOf(proto) == Box("class", <<>>, <<proto>>)

WithKids(v, kids) == [v EXCEPT !.kids = kids]

\* names the dispatcher of find_class compares with
NmRenpyRevertable == <<114, 101, 110, 112, 121, 46, 114, 101, 118, 101, 114, 116, 97, 98, 108, 101>>
NmRevertableList == <<82, 101, 118, 101, 114, 116, 97, 98, 108, 101, 76, 105, 115, 116>>
NmRevertableDict == <<82, 101, 118, 101, 114, 116, 97, 98, 108, 101, 68, 105, 99, 116>>
NmRevertableSet == <<82, 101, 118, 101, 114, 116, 97, 98, 108, 101, 83, 101, 116>>
NmCollections == <<99, 111, 108, 108, 101, 99, 116, 105, 111, 110, 115>>
NmDefaultdict == <<100, 101, 102, 97, 117, 108, 116, 100, 105, 99, 116>>
NmOrderedDict == <<79, 114, 100, 101, 114, 101, 100, 68, 105, 99, 116>>
NmBuiltins == <<98, 117, 105, 108, 116, 105, 110, 115>>
NmDict == <<100, 105, 99, 116>>
NmList == <<108, 105, 115, 116>>
NmSet == <<115, 101, 116>>
NmObject == <<111, 98, 106, 101, 99, 116>>

\* the _SPECIAL table, src lines 190-196
SpecialClass(module, name) ==
    IF module = NmRenpyRevertable /\ name = NmRevertableList THEN "RevertableList"
    ELSE IF module = NmRenpyRevertable /\ name = NmRevertableDict THEN "RevertableDict"
    ELSE IF module = NmRenpyRevertable /\ name = NmRevertableSet THEN "RevertableSet"
    ELSE IF module = NmCollections /\ name = NmDefaultdict THEN "defaultdict"
    ELSE IF module = NmCollections /\ name = NmOrderedDict THEN "OrderedDict"
    ELSE "none"

\* getattr(importlib.import_module('builtins'), name), for the builtins the
\* model's logs name; any other name stands for one builtins does not have
BuiltinClass(name) ==
    IF name = NmDict THEN "dict"
    ELSE IF name = NmList THEN "list"
    ELSE IF name = NmSet THEN "set"
    ELSE IF name = NmObject THEN "object"
    ELSE "none"

\* SafeUnpickler.find_class(module, name): [ok, v], ok = FALSE when it raises
find_class(module, name) ==
    IF SpecialClass(module, name) # "none"
    THEN [ok |-> TRUE, v |-> ClassOf(Val(SpecialClass(module, name), 0, <<>>))]
    ELSE IF name = NmRevertableList
    THEN [ok |-> TRUE, v |-> ClassOf(Val("RevertableList", 0, <<>>))]
    ELSE IF name = NmRevertableDict
    THEN [ok |-> TRUE, v |-> ClassOf(Val("RevertableDict", 0, <<>>))]
    ELSE IF name = NmRevertableSet
    THEN [ok |-> TRUE, v |-> ClassOf(Val("RevertableSet", 0, <<>>))]
    ELSE IF module = NmBuiltins
    THEN (IF BuiltinClass(name) # "none"
          THEN [ok |-> TRUE, v |-> ClassOf(Val(BuiltinClass(name), 0, <<>>))]
          ELSE [ok |-> FALSE, v |-> PyNone])
    ELSE [ok |-> TRUE, v |-> ClassOf(Val("proxy", 0, name))]

\* hash(v) does not raise
RECURSIVE Hashable(_)
Hashable(v) ==
    IF v.t \in DictKinds \cup ListKinds \cup SetKinds THEN FALSE
    ELSE IF v.t = "tuple" THEN \A i \in 1 .. Len(v.kids) : Hashable(v.kids[i])
    ELSE TRUE

\* bool(v), for the values a BUILD state can be
Truthy(v) ==
    IF v.t \in {"none"} THEN FALSE
    ELSE IF v.t \in {"bool"} THEN v.d = <<1>>
    ELSE IF v.t \in {"int", "str"} THEN v.d # <<>>
    ELSE IF v.t = "float" THEN ~ (v.d[1] = 0 /\ v.d[2] = 0 /\ SubSeq(v.d, 3, 8) = Zeros(6))
    ELSE IF v.t \in DictKinds \cup SeqKinds \cup SetKinds THEN v.kids # <<>>
    ELSE IF v.t = "proxy" THEN v.kids # <<>>
    ELSE TRUE

\* bool(v) raises: _Proxy.__len__ reads _list, which only __init__ creates
TruthRaises(v) == v.t = "proxy" /\ v.n = 0

\* a == b for dictionary keys: bools and ints compare by number
KeyEq(a, b) ==
    \/ a = b
    \/ /\ a.t \in {"bool", "int"}
       /\ b.t \in {"bool", "int"}
       /\ a.n = b.n
       /\ StripZeros(a.d) = StripZeros(b.d)

\* d[k] = v on the items of a dict: the first binding of an equal key is replaced
DictSet(items, k, v) ==
    LET hit == {i \in 1 .. Len(items) : KeyEq(items[i].kids[1], k)}
    IN IF hit = {} THEN Append(items, Pair(k, v))
       ELSE [items EXCEPT ![Min(hit)] = Pair(items[Min(hit)].kids[1], v)]

\* d.update(other) on the items of two dicts
RECURSIVE DictUpdate(_, _)
DictUpdate(items, other) ==
    IF other = <<>> THEN items
    ELSE DictUpdate(DictSet(items, other[1].kids[1], other[1].kids[2]), Tail(other))

\* s.add(x) for each x of xs, on the elements of a set
RECURSIVE SetAddAll(_, _)
SetAddAll(elems, xs) ==
    IF xs = <<>> THEN elems
    ELSE IF \E i \in 1 .. Len(elems) : KeyEq(elems[i], xs[1])
         THEN SetAddAll(elems, Tail(xs))
    ELSE SetAddAll(Append(elems, xs[1]), Tail(xs))

\* the longest prefix of xs whose elements are all hashable
RECURSIVE HashablePrefix(_)
HashablePrefix(xs) ==
    IF xs = <<>> \/ ~ Hashable(xs[1]) THEN <<>>
    ELSE <<xs[1]>> \o HashablePrefix(Tail(xs))

\* obj[k] = v as the unpickler's SETITEM does it: [ok, v]
SetItem(obj, k, v) ==
    IF obj.t \in DictKinds
    THEN (IF Hashable(k) THEN [ok |-> TRUE, v |-> WithKids(obj, DictSet(obj.kids, k, v))]
          ELSE [ok |-> FALSE, v |-> obj])
    ELSE IF obj.t \in ListKinds /\ k.t \in {"int", "bool"} /\ Len(k.d) <= 1
    THEN LET m == IF k.d = <<>> THEN 0 ELSE k.d[1]
             i == IF k.n = 1 THEN Len(obj.kids) - m + 1 ELSE m + 1
         IN IF i >= 1 /\ i <= Len(obj.kids)
            THEN [ok |-> TRUE, v |-> WithKids(obj, [obj.kids EXCEPT ![i] = v])]
            ELSE [ok |-> FALSE, v |-> obj]
    ELSE [ok |-> FALSE, v |-> obj]

\* _Proxy.extend / _Proxy.append, and list.extend: [ok, v]
AppendAll(obj, xs) ==
    IF obj.t \in ListKinds THEN [ok |-> TRUE, v |-> WithKids(obj, obj.kids \o xs)]
    ELSE IF obj.t = "proxy" /\ (obj.n = 1 \/ xs = <<>>)
    THEN [ok |-> TRUE, v |-> WithKids(obj, obj.kids \o xs)]
    ELSE [ok |-> FALSE, v |-> obj]

\* iter(x) does not raise
Iterable(x) ==
    \/ x.t \in SeqKinds \cup SetKinds \cup DictKinds \cup {"str"}
    \/ x.t = "proxy" /\ x.n = 1

\* list(x), for an iterable x
Iter(x) ==
    IF x.t \in DictKinds THEN [i \in 1 .. Len(x.kids) |-> x.kids[i].kids[1]]
    ELSE IF x.t = "str" THEN [i \in 1 .. Len(x.d) |-> PyStr(<<x.d[i]>>)]
    ELSE x.kids

\* k, v = e succeeds and k can be a key
PairOk(e) == Iterable(e) /\ Len(Iter(e)) = 2 /\ Hashable(Iter(e)[1])

\* for k, v in xs: items[k] = v, up to the first element that raises
RECURSIVE SetPairs(_, _)
SetPairs(items, xs) ==
    IF xs = <<>> \/ ~ PairOk(xs[1]) THEN items
    ELSE SetPairs(DictSet(items, Iter(xs[1])[1], Iter(xs[1])[2]), Tail(xs))

\* the __setstate__ methods of src lines 117-187
SetState(obj, state) ==
    LET first == IF state.t \in SeqKinds /\ state.kids # <<>> THEN state.kids[1]
                 ELSE PyNone
    IN IF obj.t = "RevertableList"
       THEN (IF first.t \in SeqKinds THEN WithKids(obj, obj.kids \o first.kids)
             ELSE obj)
       ELSE IF obj.t = "RevertableDict"
       THEN (IF state.t \in DictKinds THEN WithKids(obj, DictUpdate(obj.kids, state.kids))
             ELSE IF first.t \in DictKinds
                  THEN WithKids(obj, DictUpdate(obj.kids, first.kids))
             ELSE obj)
       ELSE IF obj.t = "RevertableSet"
       THEN (IF first.t \in SeqKinds \cup SetKinds
             THEN WithKids(obj, SetAddAll(obj.kids, HashablePrefix(first.kids)))
             ELSE obj)
       ELSE IF obj.t = "defaultdict"
       THEN (IF state.t = "tuple" /\ Len(state.kids) = 2 /\ state.kids[2].t \in DictKinds
             THEN WithKids(obj, DictUpdate(obj.kids, state.kids[2].kids))
             ELSE obj)
       ELSE IF obj.t = "OrderedDict"
       THEN (IF state.t \in DictKinds THEN WithKids(obj, DictUpdate(obj.kids, state.kids))
             ELSE IF state.t \in ListKinds
                  THEN WithKids(obj, SetPairs(obj.kids, state.kids))
             ELSE obj)
       ELSE obj

\* cls(*args) as REDUCE calls it, for the class with empty instance proto
Construct(proto, args) ==
    LET arg == args[1]
        fail == [ok |-> FALSE, v |-> proto]
        done(v) == [ok |-> TRUE, v |-> v]
    IN IF proto.t = "proxy" THEN done([proto EXCEPT !.n = 1])
       ELSE IF proto.t = "defaultdict" THEN done(proto)
       ELSE IF args = <<>> THEN done(proto)
       ELSE IF Len(args) > 1 \/ proto.t = "object" \/ ~ Iterable(arg) THEN fail
       ELSE IF proto.t \in ListKinds THEN done(WithKids(proto, Iter(arg)))
       ELSE IF proto.t \in SetKinds
            THEN (IF \A i \in 1 .. Len(Iter(arg)) : Hashable(Iter(arg)[i])
                  THEN done(WithKids(proto, SetAddAll(<<>>, Iter(arg))))
                  ELSE fail)
       ELSE IF arg.t \in DictKinds THEN done(WithKids(proto, arg.kids))
       ELSE IF \A i \in 1 .. Len(Iter(arg)) : PairOk(Iter(arg)[i])
            THEN done(WithKids(proto, SetPairs(<<>>, Iter(arg))))
       ELSE fail

\* cls.__new__(cls, *args) as NEWOBJ calls it: __init__ does not run
NewObject(proto, args) ==
    IF proto.t = "object" /\ args # <<>> THEN [ok |-> FALSE, v |-> proto]
    ELSE [ok |-> TRUE, v |-> proto]

\* BUILD: inst.__setstate__(state), or the unpickler's default for an
\* instance of a builtin type, which has neither __setstate__ nor __dict__
Build(inst, state) ==
    LET two == state.t = "tuple" /\ Len(state.kids) = 2
        st == IF two THEN state.kids[1] ELSE state
        slots == IF two THEN state.kids[2] ELSE PyNone
    IN IF inst.t \in {"proxy", "RevertableList", "RevertableDict", "RevertableSet",
                      "defaultdict", "OrderedDict"}
       THEN [ok |-> TRUE, v |-> SetState(inst, state)]
       ELSE IF TruthRaises(st) \/ TruthRaises(slots) \/ Truthy(st) \/ Truthy(slots)
            THEN [ok |-> FALSE, v |-> inst]
       ELSE [ok |-> TRUE, v |-> inst]

----------------------------------------------------------------------------
(* The unpickler (pickle.Unpickler.load as SafeUnpickler inherits it), for  *)
(* the opcodes of protocol 0 to 2 that the model's logs hold.  Every other  *)
(* opcode ends the load with an error.                                      *)

Cont(b) == b >= 128 /\ b <= 191

\* bytes.decode('utf-8', 'surrogatepass') from index i on: [ok, cps]
RECURSIVE Utf8Decode(_, _, _)
Utf8Decode(bs, i, acc) ==
    LET n == Len(bs)
        b == bs[i]
        c1 == bs[i + 1]
        c2 == bs[i + 2]
        c3 == bs[i + 3]
        bad == [ok |-> FALSE, cps |-> <<>>]
    IN IF i > n THEN [ok |-> TRUE, cps |-> acc]
       ELSE IF b < 128 THEN Utf8Decode(bs, i + 1, Append(acc, b))
       ELSE IF b >= 194 /\ b <= 223
            THEN (IF i + 1 <= n /\ Cont(c1)
                  THEN Utf8Decode(bs, i + 2, Append(acc, (b - 192) * 64 + (c1 - 128)))
                  ELSE bad)
       ELSE IF b >= 224 /\ b <= 239
            THEN (IF i + 2 <= n /\ Cont(c1) /\ Cont(c2) /\ (b = 224 => c1 >= 160)
                  THEN Utf8Decode(bs, i + 3,
                           Append(acc, (b - 224) * 4096 + (c1 - 128) * 64 + (c2 - 128)))
                  ELSE bad)
       ELSE IF b >= 240 /\ b <= 244
            THEN (IF /\ i + 3 <= n /\ Cont(c1) /\ Cont(c2) /\ Cont(c3)
                     /\ (b = 240 => c1 >= 144) /\ (b = 244 => c1 <= 143)
                  THEN Utf8Decode(bs, i + 4,
                           Append(acc, (b - 240) * 262144 + (c1 - 128) * 4096
                                       + (c2 - 128) * 64 + (c3 - 128)))
                  ELSE bad)
       ELSE bad

Utf8(bs) == Utf8Decode(bs, 1, <<>>)

\* codecs.escape_decode on the body of a STRING opcode, for the escapes \\ \' \"
RECURSIVE EscapeDecode(_)
EscapeDecode(s) ==
    IF s = <<>> THEN s
    ELSE IF Len(s) >= 2 /\ s[1] = 92 /\ s[2] \in {92, 39, 34}
         THEN <<s[2]>> \o EscapeDecode(SubSeq(s, 3, Len(s)))
    ELSE <<s[1]>> \o EscapeDecode(Tail(s))

\* int(line, 0) accepts the text (decimal literals only)
Base0Ok(txt) ==
    LET b == DropSign(StripBlanks(txt))
    IN IntTextOk(txt) /\ (b[1] # 48 \/ \A i \in 1 .. Len(b) : b[i] \in {48, 95})

Fail(s) == [s EXCEPT !.st = "error"]

Push(s, v, width) == [s EXCEPT !.stack = Append(@, v), !.pos = @ + width]

Top(s) == s.stack[Len(s.stack)]

SetTop(s, v, width) == [s EXCEPT !.stack[Len(s.stack)] = v, !.pos = @ + width]

Pop(st, k) == SubSeq(st, 1, Len(st) - k)

\* the index of the topmost MARK on the stack, 0 if there is none
LastMark(st) ==
    LET m == {i \in 1 .. Len(st) : st[i] = Mark} IN IF m = {} THEN 0 ELSE Max(m)

\* the number of objects above the topmost MARK
Depth(st) == Len(st) - LastMark(st)

\* opcodes that push one scalar
ExecScalar(data, s, op) ==
    LET pv == _parse_value_at(data, s.pos)
        end == Find(data, <<NL>>, s.pos)
        line == Slice(data, s.pos + 1, end)
        ln == UnpackU32(Slice(data, s.pos + 1, s.pos + 5))
        body == Slice(data, s.pos + 5, s.pos + 5 + ln)
    IN IF op = 78 THEN Push(s, PyNone, 1)
       ELSE IF op \in {BININT1, BININT2, BININT, BINFLOAT, NEWTRUE, NEWFALSE, LONG1, LONG4}
            THEN (IF pv.ok THEN Push(s, pv.v, pv.end - s.pos) ELSE Fail(s))
       ELSE IF op \in {SHORT_BINSTRING, BINSTRING}
            THEN (IF pv.ok /\ IsAscii(pv.v.d) THEN Push(s, pv.v, pv.end - s.pos)
                  ELSE Fail(s))
       ELSE IF op = BINUNICODE
            THEN (IF s.pos + 5 <= Len(data) /\ s.pos + 5 + ln <= Len(data) /\ Utf8(body).ok
                  THEN Push(s, PyStr(Utf8(body).cps), 5 + ln)
                  ELSE Fail(s))
       ELSE IF end = -1 THEN Fail(s)
       ELSE IF op = OpI
            THEN (IF line = <<48, 48>> THEN Push(s, PyFalse, end + 1 - s.pos)
                  ELSE IF line = <<48, 49>> THEN Push(s, PyTrue, end + 1 - s.pos)
                  ELSE IF Base0Ok(line) THEN Push(s, IntTextValue(line), end + 1 - s.pos)
                  ELSE Fail(s))
       ELSE IF op = OpF
            THEN (IF FloatTextOk(line) THEN Push(s, FloatTextValue(line), end + 1 - s.pos)
                  ELSE Fail(s))
       ELSE IF /\ Len(line) >= 2 /\ line[1] = line[Len(line)] /\ line[1] \in {34, 39}
               /\ IsAscii(line)
            THEN Push(s, PyStr(EscapeDecode(Slice(line, 1, Len(line) - 1))),
                      end + 1 - s.pos)
       ELSE Fail(s)

\* obj[k] = v for the flat list k1, v1, k2, v2, ... : [ok, v]
RECURSIVE SetItems(_, _)
SetItems(obj, items) ==
    IF items = <<>> THEN [ok |-> TRUE, v |-> obj]
    ELSE LET r == SetItem(obj, items[1], items[2])
         IN IF r.ok THEN SetItems(r.v, SubSeq(items, 3, Len(items))) ELSE r

\* opcodes that build and fill containers
ExecContainer(data, s, op) ==
    LET st == s.stack
        m == LastMark(st)
        items == SubSeq(st, m + 1, Len(st))
        below == SubSeq(st, 1, m - 1)
        target == below[Len(below)]
        put(r) == IF r.ok THEN [s EXCEPT !.stack = Append(Pop(below, 1), r.v),
                                          !.pos = @ + 1]
                  ELSE Fail(s)
    IN IF op = 40 THEN Push(s, Mark, 1)
       ELSE IF op = 125 THEN Push(s, Val("dict", 0, <<>>), 1)
       ELSE IF op = 93 THEN Push(s, Val("list", 0, <<>>), 1)
       ELSE IF op = 41 THEN Push(s, Val("tuple", 0, <<>>), 1)
       ELSE IF op \in {133, 134, 135}
            THEN (IF Depth(st) >= op - 132
                  THEN [s EXCEPT !.stack = Append(Pop(st, op - 132),
                                     Box("tuple", <<>>,
                                         SubSeq(st, Len(st) - (op - 133), Len(st)))),
                                 !.pos = @ + 1]
                  ELSE Fail(s))
       ELSE IF op = 115
            THEN (IF Depth(st) >= 3
                  THEN LET r == SetItem(st[Len(st) - 2], st[Len(st) - 1], st[Len(st)])
                       IN IF r.ok THEN [s EXCEPT !.stack = Append(Pop(st, 3), r.v),
                                                 !.pos = @ + 1]
                          ELSE Fail(s)
                  ELSE Fail(s))
       ELSE IF op = 97
            THEN (IF Depth(st) >= 2
                  THEN LET r == AppendAll(st[Len(st) - 1], <<st[Len(st)]>>)
                       IN IF r.ok THEN [s EXCEPT !.stack = Append(Pop(st, 2), r.v),
                                                 !.pos = @ + 1]
                          ELSE Fail(s)
                  ELSE Fail(s))
       ELSE IF m = 0 THEN Fail(s)
       ELSE IF op = 116
            THEN [s EXCEPT !.stack = Append(below, Box("tuple", <<>>, items)),
                           !.pos = @ + 1]
       ELSE IF Depth(below) < 1 THEN Fail(s)
       ELSE IF items = <<>> THEN [s EXCEPT !.stack = below, !.pos = @ + 1]
       ELSE IF op = 117
            THEN (IF Len(items) % 2 = 0 THEN put(SetItems(target, items)) ELSE Fail(s))
       ELSE put(AppendAll(target, items))

\* GLOBAL, REDUCE, NEWOBJ, BUILD
ExecObject(data, s, op) ==
    LET st == s.stack
        e1 == Find(data, <<NL>>, s.pos)
        e2 == Find(data, <<NL>>, e1 + 1)
        module == Utf8(Slice(data, s.pos + 1, e1))
        name == Utf8(Slice(data, e1 + 1, e2))
        cls == find_class(module.cps, name.cps)
        arg == st[Len(st)]
        fn == st[Len(st) - 1]
        r == IF op = 82 THEN Construct(fn.kids[1], arg.kids)
             ELSE IF op = 129 THEN NewObject(fn.kids[1], arg.kids)
             ELSE Build(fn, arg)
    IN IF op = 99
       THEN (IF e1 # -1 /\ e2 # -1 /\ module.ok /\ name.ok /\ cls.ok
             THEN Push(s, cls.v, e2 + 1 - s.pos)
             ELSE Fail(s))
       ELSE IF Depth(st) < 2 THEN Fail(s)
       ELSE IF op \in {82, 129} /\ (fn.t # "class" \/ arg.t # "tuple") THEN Fail(s)
       ELSE IF r.ok THEN [s EXCEPT !.stack = Append(Pop(st, 2), r.v), !.pos = @ + 1]
       ELSE Fail(s)

\* BINPUT, LONG_BINPUT, BINGET, LONG_BINGET
ExecMemo(data, s, op) ==
    LET wide == op \in {LONG_BINPUT, 106}
        width == IF wide THEN 5 ELSE 2
        i == IF wide THEN UnpackU32(Slice(data, s.pos + 1, s.pos + 5))
             ELSE At(data, s.pos + 1)
    IN IF s.pos + width > Len(data) THEN Fail(s)
       ELSE IF op \in {BINPUT, LONG_BINPUT}
            THEN (IF Depth(s.stack) >= 1
                  THEN [s EXCEPT !.memo = [j \in DOMAIN s.memo \cup {i} |->
                                              IF j = i THEN Top(s) ELSE s.memo[j]],
                                 !.pos = @ + width]
                  ELSE Fail(s))
       ELSE IF i \in DOMAIN s.memo THEN Push(s, s.memo[i], width)
       ELSE Fail(s)

\* one opcode of the load loop
Exec(data, s) ==
    LET op == At(data, s.pos)
    IN IF s.pos >= Len(data) THEN Fail(s)
       ELSE IF op = 128
            THEN (IF s.pos + 2 <= Len(data) /\ At(data, s.pos + 1) <= 5
                  THEN [s EXCEPT !.pos = @ + 2] ELSE Fail(s))
       ELSE IF op = 46
            THEN (IF Depth(s.stack) >= 1 THEN [s EXCEPT !.st = "stop"] ELSE Fail(s))
       ELSE IF op \in {78, BININT1, BININT2, BININT, BINFLOAT, NEWTRUE, NEWFALSE,
                       LONG1, LONG4, SHORT_BINSTRING, BINSTRING, BINUNICODE,
                       OpI, OpF, OpS}
            THEN ExecScalar(data, s, op)
       ELSE IF op \in {40, 125, 93, 41, 133, 134, 135, 115, 117, 97, 101, 116}
            THEN ExecContainer(data, s, op)
       ELSE IF op \in {99, 82, 129, 98} THEN ExecObject(data, s, op)
       ELSE IF op \in {BINPUT, LONG_BINPUT, 104, 106} THEN ExecMemo(data, s, op)
       ELSE Fail(s)

RECURSIVE Run(_, _)
Run(data, s) == IF s.st = "run" THEN Run(data, Exec(data, s)) ELSE s

\* SafeUnpickler(io.BytesIO(log)).load(): [ok, v], ok = FALSE when it raises
Unpickle(data) ==
    LET s == Run(data, [st |-> "run", pos |-> 0, stack |-> <<>>, memo |-> <<>>])
    IN IF s.st = "stop" THEN [ok |-> TRUE, v |-> Top(s)]
       ELSE [ok |-> FALSE, v |-> PyNone]

----------------------------------------------------------------------------
(* load_save_variables *)

StorePrefix == <<115, 116, 111, 114, 101, 46>>

\* isinstance(k, str) and k.startswith('store.')
IsStoreKey(k) == k.t = "str" /\ Slice(k.d, 0, 6) = StorePrefix

\* isinstance(v, (int, float, bool, str))
IsEditable(v) == v.t \in {"int", "float", "floattext", "bool", "str"}

\* the dict comprehension of load_save_variables over the items of roots
EditableItems(items) ==
    {[k |-> items[i].kids[1].d, v |-> items[i].kids[2]] :
        i \in {j \in 1 .. Len(items) :
                  IsStoreKey(items[j].kids[1]) /\ IsEditable(items[j].kids[2])}}

\* lines 324-337 of load_save_variables, log being the bytes read from the
\* archive and u the outcome of the unpickler on them: the returned pair
\* (variables, log), the exception that left the function (raised), and
\* whether messagebox.showerror was called (dialog)
LoadUnpickled(log, u) ==
    LET unpacked == u.ok /\ Iterable(u.v) /\ Len(Iter(u.v)) = 2
        roots == Iter(u.v)[1]
    IN IF ~ unpacked
       THEN [variables |-> {}, log |-> NoLog, raised |-> "none", dialog |-> "error"]
       ELSE IF roots.t \in DictKinds
       THEN [variables |-> EditableItems(roots.kids),
             log |-> [some |-> TRUE, bytes |-> log],
             raised |-> "none", dialog |-> "none"]
       ELSE [variables |-> {}, log |-> NoLog, raised |-> "none", dialog |-> "none"]

\* lines 321-337 of load_save_variables (u ranges over the one outcome of the
\* unpickler, so that it is computed once)
LoadLog(log) == CHOOSE r \in {LoadUnpickled(log, u) : u \in {Unpickle(log)}} : TRUE

\* an archive member: name, content, compression method, the metadata a
\* ZipInfo carries (date_time, external_attr), and whether its stored bytes
\* fail the CRC check on read
Entry(name, data, compress, meta) ==
    [name |-> name, data |-> data, compress |-> compress, meta |-> meta, bad |-> FALSE]

\* a closed, valid archive with these members
Zip(entries) == [state |-> "zip", entries |-> entries]

\* ZipFile.read(name) on the members listed in infolist: NameToInfo keeps the
\* last member of a name; [st, data]
ZipRead(infolist, name) ==
    LET hits == {i \in 1 .. Len(infolist) : infolist[i].name = name}
        e == infolist[Max(hits)]
    IN IF hits = {} THEN [st |-> "KeyError", data |-> <<>>]
       ELSE IF e.bad THEN [st |-> "BadZipFile", data |-> <<>>]
       ELSE [st |-> "ok", data |-> e.data]

LoadRaised(exc) == [variables |-> {}, log |-> NoLog, raised |-> exc, dialog |-> "none"]

\* load_save_variables(save_path), file being what is at save_path
load_save_variables(file) ==
    LET log == ZipRead(file.entries, "log")
    IN IF file.state = "absent" THEN LoadRaised("FileNotFoundError")
       ELSE IF file.state # "zip" THEN LoadRaised("BadZipFile")
       ELSE IF log.st # "ok" THEN LoadRaised(log.st)
       ELSE LoadLog(log.data)

----------------------------------------------------------------------------
(* One patch: Init draws (log_bytes, key, new_value), PatchVariable applies *)
(* patch_variable_in_log, Reload reads the patched log back.                *)

PatchInit ==
    /\ CodecIdle /\ LoadIdle /\ SessionIdle /\ ArchiveIdle /\ EditorIdle
    /\ log_bytes \in PatchLogs
    /\ key \in PatchKeys
    /\ new_value \in PatchValues
    /\ result = NotPatched
    /\ reloaded = NotLoaded

PatchVariable ==
    /\ result = NotPatched
    /\ result' = patch_variable_in_log(log_bytes, key, new_value)
    /\ UNCHANGED <<log_bytes, key, new_value, reloaded, codecVars, loadVars, sessionVars,
                   archiveVars, editorVars>>

Reload ==
    /\ result.st = "ok"
    /\ reloaded = NotLoaded
    /\ reloaded' = LoadLog(result.log)
    /\ UNCHANGED <<log_bytes, key, new_value, result, codecVars, loadVars, sessionVars,
                   archiveVars, editorVars>>

PatchNext == PatchVariable \/ Reload

SpecPatch == PatchInit /\ [][PatchNext]_vars

\* the bytes of a name, when it has any
NameOccursAt(log, name, idx) ==
    /\ Latin1Ok(name)
    /\ idx + Len(name) <= Len(log)
    /\ \A j \in 1 .. Len(name) : log[idx + j] = name[j]

\* a string opcode and a length field equal to len(name) right before idx
ValidHeaderAt(log, name, idx) ==
    \/ idx >= 2 /\ log[idx - 1] = SHORT_BINSTRING /\ log[idx] = Len(name)
    \/ /\ idx >= 5
       /\ log[idx - 4] \in {BINSTRING, BINUNICODE}
       /\ <<log[idx - 3], log[idx - 2], log[idx - 1], log[idx]>> = PackU32(Len(name))

\* the position after a run of BINPUT records and then a run of LONG_BINPUT
\* records that starts at p
AfterMemo(log, p) ==
    LET n == Len(log)
        isop(q, op) == q < n /\ log[q + 1] = op
        a == Min({k \in 0 .. n : ~ isop(p + 2 * k, BINPUT)})
        p2 == p + 2 * a
        b == Min({k \in 0 .. n : ~ isop(p2 + 5 * k, LONG_BINPUT)})
    IN p2 + 5 * b

\* occurrences of the name with a valid header
HeaderOccurrences(log, name) ==
    {idx \in 0 .. Len(log) : NameOccursAt(log, name, idx) /\ ValidHeaderAt(log, name, idx)}

\* those followed, after the memo records, by a decodable scalar
ValueOccurrences(log, name) ==
    {idx \in HeaderOccurrences(log, name) :
        _parse_value_at(log, AfterMemo(log, idx + Len(name))).ok}

\* C1: a successful patch returns log[0..s) ++ _encode_scalar(v) ++ log[e..),
\* [s, e) being the span of the scalar decoded after the memo records that
\* follow the first occurrence of the name with a valid header and a decodable
\* scalar; every byte before s and from e on is kept.
C1_PatchFrame ==
    result.st = "ok" =>
        /\ ValueOccurrences(log_bytes, key) # {}
        /\ LET idx == Min(ValueOccurrences(log_bytes, key))
               s == AfterMemo(log_bytes, idx + Len(key))
               e == _parse_value_at(log_bytes, s).end
               enc == _encode_scalar(new_value).bytes
               n == Len(log_bytes)
           IN /\ Len(result.log) = s + Len(enc) + (n - e)
              /\ \A i \in 1 .. s : result.log[i] = log_bytes[i]
              /\ \A i \in 1 .. Len(enc) : result.log[s + i] = enc[i]
              /\ \A i \in 1 .. (n - e) : result.log[s + Len(enc) + i] = log_bytes[e + i]

\* a patch has replaced a 2-byte value, found after three memo records, by a
\* 9-byte one
C1_Witness ==
    /\ result.st = "ok"
    /\ log_bytes = LogMemo
    /\ key = Store(98)
    /\ new_value = PyInt(0, <<0, 0, 0, 0, 1>>)
    /\ Len(result.log) > Len(log_bytes)

\* C4: the patch fails VariableNotFound exactly when no occurrence of the name
\* has a valid header, and AmbiguousEncoding exactly when some occurrence has
\* one but none is followed by a decodable scalar; neither returns a buffer.
C4_FailureKinds ==
    result # NotPatched =>
        /\ result.st = "VariableNotFound" <=> HeaderOccurrences(log_bytes, key) = {}
        /\ result.st = "AmbiguousEncoding" <=>
              /\ HeaderOccurrences(log_bytes, key) # {}
              /\ ValueOccurrences(log_bytes, key) = {}
        /\ result.st \in {"VariableNotFound", "AmbiguousEncoding"} => result.log = <<>>

\* C4 for the names str.encode('latin1') accepts
C4_Latin1Names == Latin1Ok(key) => C4_FailureKinds

\* a name with a code point above 255 has ended the patch in the encoder's
\* own exception
C4_NotEncodable ==
    /\ key = Store(8364)
    /\ log_bytes = LogPlain
    /\ result.st = "UnicodeEncodeError"

\* the table of a load with one entry replaced
WithBinding(table, name, v) ==
    {e \in table : e.k # name} \cup {[k |-> name, v |-> v]}

\* C2: when the root mapping binds the name to a scalar and v is a supported
\* scalar, the table read from the patched log is the table read from the log
\* with the name mapped to v.
C2_PatchLandsOnBinding ==
    LET before == LoadLog(log_bytes)
    IN (/\ reloaded # NotLoaded
        /\ before.log.some
        /\ \E e \in before.variables : e.k = key
        /\ new_value.t \in {"bool", "int", "float", "str"}
        /\ Latin1Ok(new_value.d))
       => reloaded.variables = WithBinding(before.variables, key, new_value)

\* store.b of {"store.a": "store.b", "store.b": 5} was patched to 250, and the
\* table read back has lost store.b
C2_Shadowed ==
    /\ log_bytes = LogShadow
    /\ key = Store(98)
    /\ new_value = PyInt(0, <<250>>)
    /\ reloaded # NotLoaded
    /\ reloaded.variables = {[k |-> Store(97), v |-> PyStr(Store(98))]}

----------------------------------------------------------------------------
(* One load: Init draws the object a log serializes and the archive that    *)
(* holds it, Load applies load_save_variables.                              *)

\* GLOBAL module name
Global(module, name) == <<99>> \o module \o <<NL>> \o name \o <<NL>>

\* cls.__new__(cls): GLOBAL, EMPTY_TUPLE, NEWOBJ
New(module, name) == Global(module, name) \o <<41, 129>>

NmGame == <<103, 97, 109, 101>>

\* a value that is no scalar: a container or an object
Opaque == Val("opaque", 0, <<>>)

\* an item of a root mapping: the bytes that serialize it, its key, its value
Item(k, kbytes, v, vbytes) == [bytes |-> kbytes \o vbytes, k |-> k, v |-> v]

StoreItem(c, v, vbytes) == Item(PyStr(Store(c)), Unicode(Store(c)), v, vbytes)

\* store.a: 1, store.a: -1.5, store.b: "Ann", store.t: True, store.n: None,
\* other.x: 5, 7: 8, store.c: [], store.r: RevertableList([1]),
\* store.o / store.p: objects of the unknown class game.Item, made by NEWOBJ
\* and BUILD, and by REDUCE; store.i: an object of the unknown dict subclass
\* game.Inv with one item; store.l: one of the unknown list subclass game.Bag
\* with one element
Items ==
    {StoreItem(97, PyInt(0, <<1>>), Int1(1)),
     StoreItem(97, PyFloat(1, 1023, 8, Zeros(6)), <<BINFLOAT, 191, 248, 0, 0, 0, 0, 0, 0>>),
     StoreItem(98, PyStr(<<65, 110, 110>>), Unicode(<<65, 110, 110>>)),
     StoreItem(116, PyTrue, <<NEWTRUE>>),
     StoreItem(110, PyNone, <<78>>),
     Item(PyStr(<<111, 116, 104, 101, 114, 46, 120>>),
          Unicode(<<111, 116, 104, 101, 114, 46, 120>>), PyInt(0, <<5>>), Int1(5)),
     Item(PyInt(0, <<7>>), Int1(7), PyInt(0, <<8>>), Int1(8)),
     StoreItem(99, Opaque, <<93>>),
     StoreItem(114, Opaque,
               New(NmRenpyRevertable, NmRevertableList) \o <<40>> \o Int1(1) \o <<101>>),
     StoreItem(111, Opaque,
               New(NmGame, <<73, 116, 101, 109>>)
               \o <<125, 40>> \o Unicode(<<120>>) \o Int1(1) \o <<117, 98>>),
     StoreItem(112, Opaque,
               Global(NmGame, <<73, 116, 101, 109>>) \o Int1(1) \o <<133, 82>>),
     StoreItem(105, Opaque,
               New(NmGame, <<73, 110, 118>>)
               \o <<40>> \o Unicode(<<107>>) \o Int1(1) \o <<117>>),
     StoreItem(108, Opaque,
               New(NmGame, <<66, 97, 103>>) \o <<40>> \o Int1(1) \o <<101>>)}

\* a root mapping has at most this many items
MaxItems == 2

\* root mappings, and roots that are no mapping: a list, None, an integer
Graphs ==
    {[kind |-> "mapping", items |-> its] :
        its \in UNION {[1 .. n -> Items] : n \in 0 .. MaxItems}}
    \cup {[kind |-> k, items |-> <<>>] : k \in {"list", "none", "int"}}

\* the log a save holds for the graph g: pickle.dumps((roots, None), 2)
Dump(g) ==
    LET body(i) == g.items[i].bytes
        RECURSIVE cat(_)
        cat(i) == IF i > Len(g.items) THEN <<>> ELSE body(i) \o cat(i + 1)
    IN IF g.kind = "mapping" THEN Root(cat(1))
       ELSE IF g.kind = "list" THEN <<128, 2, 93, 78, 134, 46>>
       ELSE IF g.kind = "none" THEN <<128, 2, 78, 78, 134, 46>>
       ELSE <<128, 2>> \o Int1(3) \o <<78, 134, 46>>

\* byte streams that are no pickle of a pair: cut before STOP, cut inside a
\* string, an unknown opcode, a lone mapping (not a pair), nothing
Malformed ==
    {<<128, 2, 125, 78, 134>>,
     <<128, 2, 125, 40>> \o <<BINUNICODE, 7, 0, 0, 0, 115, 116>>,
     <<128, 2, 255, 46>>,
     <<128, 2, 125, 46>>,
     <<>>}

SaveEntry(name, data) == Entry(name, data, "deflated", "t0")

\* a save as Ren'Py writes it around the log
SaveOf(log) ==
    Zip(<<SaveEntry("screenshot.png", <<1>>), SaveEntry("log", log),
          SaveEntry("signatures", <<>>)>>)

LoadInit ==
    /\ CodecIdle /\ PatchIdle /\ SessionIdle /\ ArchiveIdle /\ EditorIdle
    /\ loaded = NotLoaded
    /\ \/ /\ graph \in Graphs
          /\ save_path = SaveOf(Dump(graph))
       \/ /\ graph = [kind |-> "malformed", items |-> <<>>]
          /\ save_path \in {SaveOf(m) : m \in Malformed}
       \/ /\ graph = [kind |-> "unreadable", items |-> <<>>]
          /\ save_path \in {NoFile, [state |-> "junk", entries |-> <<>>],
                            Zip(<<SaveEntry("screenshot.png", <<1>>)>>),
                            Zip(<<[SaveEntry("log", Dump([kind |-> "none", items |-> <<>>]))
                                      EXCEPT !.bad = TRUE]>>)}

Load ==
    /\ loaded = NotLoaded
    /\ loaded' = load_save_variables(save_path)
    /\ UNCHANGED <<save_path, graph, codecVars, patchVars, sessionVars, archiveVars, editorVars>>

LoadNext == Load

SpecLoad == LoadInit /\ [][LoadNext]_vars

\* a load that returned an empty table for a successfully read mapping
EmptySuccess(r) == r.raised = "none" /\ r.variables = {} /\ r.log.some

\* C9: a log whose root is no mapping makes the load fail with CorruptGraph,
\* a malformed stream makes it fail with the decode failure, and neither load
\* returns what a successful load of a save without editable variables returns.
C9_LoadFailures ==
    loaded # NotLoaded =>
        /\ graph.kind \in {"list", "none", "int"} => loaded.raised = "CorruptGraph"
        /\ graph.kind = "malformed" => loaded.raised # "none"
        /\ graph.kind \in {"list", "none", "int", "malformed"} => ~ EmptySuccess(loaded)

\* the load of a log whose root is a list has returned the empty table with
\* no exception and no dialog
C9_SilentEmpty ==
    /\ graph.kind = "list"
    /\ loaded = [variables |-> {}, log |-> NoLog, raised |-> "none", dialog |-> "none"]

\* the mapping the items build: a later item replaces an earlier one of the
\* same key
RootMapping(items) ==
    {[k |-> items[i].k, v |-> items[i].v] :
        i \in {j \in 1 .. Len(items) :
                  \A l \in (j + 1) .. Len(items) : items[l].k # items[j].k}}

\* its entries with a 'store.'-prefixed string key and a scalar value
EditableTable(items) ==
    {[k |-> e.k.d, v |-> e.v] :
        e \in {x \in RootMapping(items) :
                  /\ x.k.t = "str"
                  /\ Len(x.k.d) >= 6
                  /\ SubSeq(x.k.d, 1, 6) = <<115, 116, 111, 114, 101, 46>>
                  /\ x.v.t \in {"int", "float", "bool", "str"}}}

\* C10: the table of a load is exactly the 'store.' string-keyed scalar
\* entries of the root mapping, values unchanged; containers, other keys and
\* objects of unknown classes are dropped, and the load does not raise.
C10_EditableTable ==
    (loaded # NotLoaded /\ graph.kind = "mapping") =>
        /\ loaded.raised = "none"
        /\ loaded.dialog = "none"
        /\ loaded.log = [some |-> TRUE, bytes |-> Dump(graph)]
        /\ loaded.variables = EditableTable(graph.items)

\* C10 for mappings without an object of an unknown container subclass
C10_WithoutUnknownContainers ==
    (\A i \in 1 .. Len(graph.items) :
        graph.items[i].k.d \notin {Store(105), Store(108)})
    => C10_EditableTable

\* {"store.a": 1, "store.i": <game.Inv with one item>} has been loaded: the
\* error dialog was shown and store.a is not in the table
C10_SiblingLost ==
    /\ Len(graph.items) = 2
    /\ graph.items[1].k = PyStr(Store(97))
    /\ graph.items[1].v = PyInt(0, <<1>>)
    /\ graph.items[2].k = PyStr(Store(105))
    /\ loaded.dialog = "error"
    /\ loaded.variables = {}

----------------------------------------------------------------------------
(* An editing session after load_file: SaveEdit records edits in            *)
(* self.modified_variables, ApplyModifications is the loop of save_file     *)
(* that folds patch_variable_in_log over them.                              *)

\* {"store.a": "x", "store.b": 2}, byte strings
LogTextInt ==
    Root(ShortStr(Store(97)) \o ShortStr(<<120>>) \o ShortStr(Store(98)) \o Int1(2))

\* {"store.a": 1, "store.b": 2, "store.c": "s"}
LogThree ==
    Root(ShortStr(Store(97)) \o Int1(1) \o ShortStr(Store(98)) \o Int1(2)
         \o ShortStr(Store(99)) \o ShortStr(<<115>>))

SessionLogs == {LogTextInt, LogMemo, LogFloatBool, LogThree}

\* what the user types in the edit dialog: "9", "store.b", "yes", "1.5", ""
EditTexts ==
    {<<57>>, <<115, 116, 111, 114, 101, 46, 98>>, <<121, 101, 115>>, <<49, 46, 53>>, <<>>}

\* float(text) for the texts of EditTexts that denote a float: 9.0 and 1.5
ParseFloat(txt) ==
    IF StripBlanks(txt) = <<57>> THEN PyFloat(0, 1026, 2, Zeros(6))
    ELSE IF StripBlanks(txt) = <<49, 46, 53>> THEN PyFloat(0, 1023, 8, Zeros(6))
    ELSE FloatTextValue(txt)

\* the value save_edit parses from the text, by the type of the original
\* value: [ok, v], ok = FALSE when it raises ValueError
ParseEdit(original_value, txt) ==
    IF original_value.t = "bool"
    THEN [ok |-> TRUE,
          v |-> IF LowerAll(txt) \in {<<116, 114, 117, 101>>, <<49>>, <<121, 101, 115>>}
                THEN PyTrue ELSE PyFalse]
    ELSE IF original_value.t = "int"
    THEN (IF IntTextOk(txt) THEN [ok |-> TRUE, v |-> IntTextValue(txt)]
          ELSE [ok |-> FALSE, v |-> PyNone])
    ELSE IF original_value.t \in {"float", "floattext"}
    THEN (IF FloatTextOk(txt) THEN [ok |-> TRUE, v |-> ParseFloat(txt)]
          ELSE [ok |-> FALSE, v |-> PyNone])
    ELSE IF original_value.t = "str" THEN [ok |-> TRUE, v |-> PyStr(txt)]
    ELSE [ok |-> FALSE, v |-> PyNone]

\* d[k] = v on a dict kept as its items in insertion order
Assign(d, k, v) ==
    IF \E i \in 1 .. Len(d) : d[i].k = k
    THEN [i \in 1 .. Len(d) |-> IF d[i].k = k THEN [k |-> k, v |-> v] ELSE d[i]]
    ELSE Append(d, [k |-> k, v |-> v])

\* the loop of save_file over modified_variables.items(): [st, log], st the
\* exception of the first patch that raises
RECURSIVE FoldEdits(_, _)
FoldEdits(log, edits) ==
    IF edits = <<>> THEN [st |-> "ok", log |-> log]
    ELSE CHOOSE out \in
             {IF r.st = "ok" THEN FoldEdits(r.log, Tail(edits)) ELSE r :
                 r \in {patch_variable_in_log(log, edits[1].k, edits[1].v)}} : TRUE

\* the session load_file leaves: the log, its table, no edits
SessionInit ==
    /\ CodecIdle /\ PatchIdle /\ LoadIdle /\ ArchiveIdle /\ EditorIdle
    /\ \E log \in SessionLogs :
          /\ original_log = LoadLog(log).log
          /\ variables = LoadLog(log).variables
    /\ modified_variables = <<>>
    /\ modified_log = NotPatched

\* save_edit of the edit dialog opened on the variable e.k
SaveEdit ==
    \E e \in variables : \E txt \in EditTexts :
        LET parsed == ParseEdit(e.v, txt)
        IN /\ parsed.ok
           /\ modified_variables' = Assign(modified_variables, e.k, parsed.v)
           /\ modified_log' = NotPatched
           /\ UNCHANGED <<original_log, variables, codecVars, patchVars, loadVars,
                          archiveVars, editorVars>>

\* save_file up to the call of save_modified_save
ApplyModifications ==
    /\ modified_variables # <<>>
    /\ modified_log = NotPatched
    /\ modified_log' = FoldEdits(original_log.bytes, modified_variables)
    /\ UNCHANGED <<original_log, variables, modified_variables, codecVars, patchVars,
                   loadVars, archiveVars, editorVars>>

SessionNext == SaveEdit \/ ApplyModifications

SpecSession == SessionInit /\ [][SessionNext]_vars

\* the orders in which the edits can be taken
Orderings(edits) ==
    {[i \in 1 .. Len(edits) |-> edits[p[i]]] :
        p \in {q \in [1 .. Len(edits) -> 1 .. Len(edits)] :
                  \A i, j \in 1 .. Len(edits) : q[i] = q[j] => i = j}}

\* C5: the buffer the fold gives does not depend on the order of the edits
\* (their names are distinct): any other order in which every patch succeeds
\* gives the same bytes.
C5_OrderIndependent ==
    modified_log.st = "ok" =>
        \A o \in Orderings(modified_variables) :
            FoldEdits(original_log.bytes, o).st = "ok" =>
                FoldEdits(original_log.bytes, o).log = modified_log.log

\* two edits have been folded, and the other order gives another buffer
C5_OrderMatters ==
    /\ modified_log.st = "ok"
    /\ Len(modified_variables) = 2
    /\ \E o \in Orderings(modified_variables) :
          /\ FoldEdits(original_log.bytes, o).st = "ok"
          /\ FoldEdits(original_log.bytes, o).log # modified_log.log

----------------------------------------------------------------------------
(* The signature engine: _find_security_keys, _load_signing_keys and        *)
(* _signatures_for_log.  signing is the environment they read: the file at  *)
(* each candidate path, in the order of the candidates list, the encoding   *)
(* open() decodes text with, and whether import ecdsa succeeds.  A key      *)
(* store is "absent", a "dir" (it exists, open raises) or a "file" of       *)
(* lines, each a byte sequence without its line terminator.  The files are  *)
(* shorter than the chunk a text file is read and decoded by, so that a     *)
(* byte that does not decode raises before the first line is delivered.     *)

\* the index of the first candidate that exists, 0 for None
_find_security_keys ==
    LET found == {p \in 1 .. Len(signing.stores) : signing.stores[p].state # "absent"}
    IN IF found = {} THEN 0 ELSE Min(found)

\* the code points cp1252 gives the bytes 0x80 .. 0x9f, 0 where it has none
Cp1252High ==
    <<8364, 0, 8218, 402, 8222, 8230, 8224, 8225, 710, 8240, 352, 8249, 338, 0, 381, 0,
      0, 8216, 8217, 8220, 8221, 8226, 8211, 8212, 732, 8482, 353, 8250, 339, 0, 382, 376>>

\* bytes.decode(encoding), strict: [ok, cps]
DecodeText(bs, encoding) ==
    IF encoding = "utf-8" THEN Utf8(bs)
    ELSE IF \E i \in 1 .. Len(bs) : bs[i] >= 128 /\ bs[i] <= 159 /\ Cp1252High[bs[i] - 127] = 0
         THEN [ok |-> FALSE, cps |-> <<>>]
         ELSE [ok |-> TRUE,
               cps |-> [i \in 1 .. Len(bs) |->
                           IF bs[i] >= 128 /\ bs[i] <= 159 THEN Cp1252High[bs[i] - 127]
                           ELSE bs[i]]]

\* str.isspace() of one character
IsSpace(c) ==
    \/ c \in {9, 10, 11, 12, 13, 28, 29, 30, 31, 32, 133, 160, 5760, 8232, 8233, 8239,
              8287, 12288}
    \/ (c >= 8192 /\ c <= 8202)

\* str.strip()
RECURSIVE StripSpaces(_)
StripSpaces(s) ==
    IF s # <<>> /\ IsSpace(s[1]) THEN StripSpaces(Tail(s))
    ELSE IF s # <<>> /\ IsSpace(s[Len(s)]) THEN StripSpaces(SubSeq(s, 1, Len(s) - 1))
    ELSE s

\* str.split(): the maximal runs of characters that are not whitespace
RECURSIVE Split(_)
Split(s) ==
    LET t == StripSpaces(s)
        ends == {i \in 1 .. Len(t) : IsSpace(t[i])}
        e == IF ends = {} THEN Len(t) + 1 ELSE Min(ends)
    IN IF t = <<>> THEN <<>>
       ELSE <<SubSeq(t, 1, e - 1)>> \o Split(SubSeq(t, e, Len(t)))

\* the value of a character of the base64 alphabet, -1 for any other
B64Value(c) ==
    IF c >= 65 /\ c <= 90 THEN c - 65
    ELSE IF c >= 97 /\ c <= 122 THEN c - 71
    ELSE IF c >= 48 /\ c <= 57 THEN c + 4
    ELSE IF c = 43 THEN 62
    ELSE IF c = 47 THEN 63
    ELSE -1

\* binascii.a2b_base64 without strict mode, from index i on: characters
\* outside the alphabet are dropped, the padding that completes a quad ends
\* the data, an incomplete quad at the end raises
RECURSIVE A2B(_, _, _, _, _, _)
A2B(s, i, quad_pos, pads, leftchar, out) ==
    IF i > Len(s) THEN [ok |-> quad_pos = 0, bytes |-> out]
    ELSE IF s[i] = 61
    THEN (IF quad_pos >= 2 /\ quad_pos + pads + 1 >= 4 THEN [ok |-> TRUE, bytes |-> out]
          ELSE A2B(s, i + 1, quad_pos, IF quad_pos >= 2 THEN pads + 1 ELSE pads,
                   leftchar, out))
    ELSE IF B64Value(s[i]) < 0 THEN A2B(s, i + 1, quad_pos, pads, leftchar, out)
    ELSE LET v == B64Value(s[i])
         IN IF quad_pos = 0 THEN A2B(s, i + 1, 1, 0, v, out)
            ELSE IF quad_pos = 1
            THEN A2B(s, i + 1, 2, 0, v % 16, Append(out, leftchar * 4 + v \div 16))
            ELSE IF quad_pos = 2
            THEN A2B(s, i + 1, 3, 0, v % 4, Append(out, leftchar * 16 + v \div 4))
            ELSE A2B(s, i + 1, 0, 0, 0, Append(out, leftchar * 64 + v))

\* base64.b64decode(text): [ok, bytes]; a character outside ASCII raises
b64decode(text) ==
    IF ~ IsAscii(text) THEN [ok |-> FALSE, bytes |-> <<>>]
    ELSE CHOOSE r \in {IF d.ok THEN d ELSE [ok |-> FALSE, bytes |-> <<>>] :
                          d \in {A2B(text, 1, 0, 0, 0, <<>>)}} : TRUE

\* the character of the base64 alphabet with the value v
B64Char(v) ==
    IF v < 26 THEN v + 65
    ELSE IF v < 52 THEN v + 71
    ELSE IF v < 62 THEN v - 4
    ELSE IF v = 62 THEN 43
    ELSE 47

\* base64.b64encode(bs).decode('ascii')
RECURSIVE b64encode(_)
b64encode(bs) ==
    IF bs = <<>> THEN <<>>
    ELSE IF Len(bs) = 1
    THEN <<B64Char(bs[1] \div 4), B64Char((bs[1] % 4) * 16), 61, 61>>
    ELSE IF Len(bs) = 2
    THEN <<B64Char(bs[1] \div 4), B64Char((bs[1] % 4) * 16 + bs[2] \div 16),
           B64Char((bs[2] % 16) * 4), 61>>
    ELSE <<B64Char(bs[1] \div 4), B64Char((bs[1] % 4) * 16 + bs[2] \div 16),
           B64Char((bs[2] % 16) * 4 + bs[3] \div 64), B64Char(bs[3] % 64)>>
         \o b64encode(SubSeq(bs, 4, Len(bs)))

\* 'signing-key'
SigningKeyWord == <<115, 105, 103, 110, 105, 110, 103, 45, 107, 101, 121>>

\* _load_signing_keys(keys_path): the DER of every 'signing-key <base64>'
\* record whose base64 decodes, in file order; [] when the file cannot be
\* opened or read
_load_signing_keys(keys_path) ==
    LET store == signing.stores[keys_path]
        text(i) == DecodeText(store.lines[i], signing.encoding)
        RECURSIVE keys(_)
        keys(i) ==
            IF i > Len(store.lines) THEN <<>>
            ELSE LET line == StripSpaces(text(i).cps)
                     parts == Split(line)
                 IN IF line = <<>> \/ line[1] = 35 THEN keys(i + 1)
                    ELSE IF parts[1] = SigningKeyWord /\ Len(parts) >= 2
                                                     /\ b64decode(parts[2]).ok
                    THEN <<b64decode(parts[2]).bytes>> \o keys(i + 1)
                    ELSE keys(i + 1)
    IN IF store.state # "file" THEN <<>>
       ELSE IF \E i \in 1 .. Len(store.lines) : ~ text(i).ok THEN <<>>
       ELSE keys(1)

\* ecdsa.SigningKey.from_der(der): the library is not part of the source;
\* here a private key is one byte, 0 is not a key
from_der(der) ==
    IF Len(der) = 1 /\ der[1] # 0 THEN [ok |-> TRUE, sk |-> der[1]]
    ELSE [ok |-> FALSE, sk |-> 0]

\* sk.verifying_key.to_der()
VerifyingDer(sk) == <<48, sk>>

RECURSIVE Sum(_)
Sum(bs) == IF bs = <<>> THEN 0 ELSE (bs[1] + Sum(Tail(bs))) % 256

\* sk.sign(log_bytes): [ok, sig], a function of the key and the bytes; the
\* key 255 parses and fails to sign
Sign(sk, log) ==
    IF sk = 255 THEN [ok |-> FALSE, sig |-> <<>>]
    ELSE [ok |-> TRUE, sig |-> <<sk, Len(log) % 256, Sum(log)>>]

\* 'signature '
SignatureWord == <<115, 105, 103, 110, 97, 116, 117, 114, 101, 32>>

\* the line for the key sk: 'signature <base64 pubkey> <base64 signature>'
SignatureLine(sk, log) ==
    SignatureWord \o b64encode(VerifyingDer(sk)) \o <<32>> \o b64encode(Sign(sk, log).sig)

\* the loop over keys: the lines of the keys that parse and sign
RECURSIVE OutLines(_, _)
OutLines(keys, log) ==
    IF keys = <<>> THEN <<>>
    ELSE IF from_der(keys[1]).ok /\ Sign(from_der(keys[1]).sk, log).ok
    THEN <<SignatureLine(from_der(keys[1]).sk, log)>> \o OutLines(Tail(keys), log)
    ELSE OutLines(Tail(keys), log)

\* '\n'.join(lines) + '\n'
RECURSIVE JoinLines(_)
JoinLines(lines) ==
    IF lines = <<>> THEN <<NL>>
    ELSE IF Len(lines) = 1 THEN lines[1] \o <<NL>>
    ELSE lines[1] \o <<NL>> \o JoinLines(Tail(lines))

\* str.encode('utf-8') of text below U+0800
RECURSIVE Utf8Encode(_)
Utf8Encode(cps) ==
    IF cps = <<>> THEN <<>>
    ELSE (IF cps[1] < 128 THEN <<cps[1]>>
          ELSE <<192 + (cps[1] \div 64), 128 + (cps[1] % 64)>>) \o Utf8Encode(Tail(cps))

\* the signatures of the keys, given the keys read from the store
SignaturesOf(keys, log) ==
    IF keys = <<>> THEN <<>>
    ELSE IF ~ signing.ecdsa THEN <<>>
    ELSE CHOOSE out \in {IF lines = <<>> THEN <<>> ELSE Utf8Encode(JoinLines(lines)) :
                            lines \in {OutLines(keys, log)}} : TRUE

\* _signatures_for_log(log_bytes): b'' without a key store, without keys or
\* without ecdsa, else a line per key that parses and signs
_signatures_for_log(log) ==
    IF _find_security_keys = 0 THEN <<>>
    ELSE CHOOSE out \in {SignaturesOf(keys, log) :
                            keys \in {_load_signing_keys(_find_security_keys)}} : TRUE

\* a record 'signing-key <text>'
KeyLine(text) == SigningKeyWord \o <<32>> \o text

\* the record of the private key sk
KeyRecord(sk) == KeyLine(b64encode(<<sk>>))

\* the lines of a key store: the records of the keys 1 and 2, of a key that
\* from_der rejects, of a key that fails to sign, a record whose base64 is not
\* padded, one whose base64 is not ASCII, an indented record with a third
\* field, a commented record, a blank line, a record of another kind, a record
\* without a key, a comment with a byte that is not UTF-8 ('#\xe9') and a
\* comment in UTF-8 that cp1252 cannot decode ('#\xc3\x8d')
StoreLines ==
    {KeyRecord(1), KeyRecord(2), KeyRecord(0), KeyRecord(255), KeyLine(<<65, 81>>),
     KeyLine(<<195, 169>>), <<32, 32>> \o SigningKeyWord \o <<9>> \o b64encode(<<3>>) \o <<32, 120>>,
     <<35, 32>> \o KeyRecord(1), <<>>, <<107, 101, 121, 32>> \o b64encode(<<1>>),
     SigningKeyWord, <<35, 233>>, <<35, 195, 141>>}

MaxKeyLines == 2

KeyFile(lines) == [state |-> "file", lines |-> lines]

KeyFiles ==
    {KeyFile(lines) : lines \in UNION {[1 .. n -> StoreLines] : n \in 0 .. MaxKeyLines}}

\* the candidates, none existing but those of the pairs <<p, store>> given
Stores(placed) ==
    [p \in 1 .. NumCandidates |->
        IF \E e \in placed : e[1] = p THEN (CHOOSE e \in placed : e[1] = p)[2] ELSE NoStore]

\* where the stores are: nowhere; a directory in the place of the first
\* candidate, before a store; a store at the first, at the last, or at the
\* third candidate with another store after it
StorePlacements ==
    {Stores({}),
     Stores({<<1, [state |-> "dir", lines |-> <<>>]>>, <<2, KeyFile(<<KeyRecord(1)>>)>>})}
    \cup {Stores({<<1, f>>}) : f \in KeyFiles}
    \cup {Stores({<<NumCandidates, f>>}) : f \in KeyFiles}
    \cup {Stores({<<3, f>>, <<5, KeyFile(<<KeyRecord(2)>>)>>}) : f \in KeyFiles}

SigningEnvs ==
    {[stores |-> s, encoding |-> e, ecdsa |-> b] :
        s \in StorePlacements, e \in {"utf-8", "cp1252"}, b \in BOOLEAN}

\* the logs signed
SignedBytes == {<<>>, <<7>>, <<128, 2, 125, 46>>}

SignInit ==
    /\ CodecIdle /\ LoadIdle /\ SessionIdle
    /\ log_bytes \in SignedBytes
    /\ key = <<>> /\ new_value = PyNone /\ result = NotPatched /\ reloaded = NotLoaded
    /\ fs = [p \in {"current", "other"} |-> NoFile]
    /\ src_path = "current" /\ dst_path = "current"
    /\ signing \in SigningEnvs
    /\ zin = NoHandle /\ pc = [at |-> "idle", i |-> 0] /\ outcome = "none"
    /\ EditorIdle

\* sig = _signatures_for_log(log_bytes)
SignLog ==
    /\ signatures = NotSigned
    /\ signatures' = [st |-> "returned", bytes |-> _signatures_for_log(log_bytes)]
    /\ UNCHANGED <<current_file, dialog, codecVars, patchVars, loadVars, sessionVars,
                   archiveVars>>

SignNext == SignLog

SpecSign == SignInit /\ [][SignNext]_vars

\* the store consulted: the first candidate that exists
Consulted == signing.stores[Min({p \in 1 .. NumCandidates : signing.stores[p].state # "absent"})]

NoStoreExists == \A p \in 1 .. NumCandidates : signing.stores[p].state = "absent"

\* the key of a line of the store, read as text by itself: the private key of
\* a 'signing-key <base64>' record that parses and signs, 0 for any other line
UsableKey(line) ==
    LET text == DecodeText(line, signing.encoding)
        parts == Split(text.cps)
    IN IF /\ signing.ecdsa
          /\ text.ok
          /\ Len(parts) >= 2
          /\ parts[1] = SigningKeyWord
          /\ b64decode(parts[2]).ok
          /\ from_der(b64decode(parts[2]).bytes).ok
          /\ Sign(from_der(b64decode(parts[2]).bytes).sk, log_bytes).ok
       THEN from_der(b64decode(parts[2]).bytes).sk
       ELSE 0

\* a line per usable key of the store, in the order of the store
RECURSIVE ExpectedLines(_)
ExpectedLines(lines) ==
    IF lines = <<>> THEN <<>>
    ELSE (IF UsableKey(lines[1]) = 0 THEN <<>>
          ELSE SignatureLine(UsableKey(lines[1]), log_bytes) \o <<NL>>)
         \o ExpectedLines(Tail(lines))

\* the lines of a text, each with its terminator taken off
RECURSIVE TextLines(_)
TextLines(bs) ==
    IF bs = <<>> THEN <<>>
    ELSE LET e == Find(bs, <<NL>>, 0)
         IN IF e < 0 THEN <<bs>>
            ELSE <<Slice(bs, 0, e)>> \o TextLines(From(bs, e + 1))

\* every line reads 'signature <base64> <base64>' and the text ends in a
\* newline
WellFormedSignatures(bs) ==
    /\ bs # <<>> => bs[Len(bs)] = NL
    /\ \A i \in 1 .. Len(TextLines(bs)) :
          LET parts == Split(TextLines(bs)[i])
          IN /\ Len(parts) = 3
             /\ parts[1] \o <<32>> = SignatureWord
             /\ b64decode(parts[2]).ok
             /\ b64decode(parts[3]).ok

\* C11: _signatures_for_log returns b'' when no candidate exists or no key of
\* the first existing store parses, and otherwise one newline-terminated line
\* 'signature <base64 pubkey> <base64 signature>' per key of that store that
\* parses and signs, in the order of the store, whatever the other lines of
\* the store are.
C11_SignatureLines ==
    signatures.st = "returned" =>
        /\ WellFormedSignatures(signatures.bytes)
        /\ signatures.bytes =
              IF NoStoreExists \/ Consulted.state # "file" THEN <<>>
              ELSE ExpectedLines(Consulted.lines)

\* the same for the stores every line of which decodes in the encoding of the
\* platform: there the lines are those of the usable keys
C11_DecodableStores ==
    (/\ signatures.st = "returned"
     /\ ~ NoStoreExists
     /\ \A i \in 1 .. Len(Consulted.lines) :
           DecodeText(Consulted.lines[i], signing.encoding).ok) =>
        /\ WellFormedSignatures(signatures.bytes)
        /\ signatures.bytes = ExpectedLines(Consulted.lines)

\* the store holds the record of a key that parses and signs and a comment
\* with a byte that does not decode, and no signature was produced
C11_KeysLost ==
    /\ signatures.st = "returned"
    /\ signatures.bytes = <<>>
    /\ ~ NoStoreExists
    /\ Consulted.state = "file"
    /\ Len(Consulted.lines) = 2
    /\ UsableKey(Consulted.lines[1]) # 0
    /\ Consulted.lines[2][1] = 35
    /\ ~ DecodeText(Consulted.lines[2], signing.encoding).ok

----------------------------------------------------------------------------
(* save_modified_save, one step per line group: open the source, open the   *)
(* destination, write one member, leave the with blocks.                    *)

\* a faulty LogEntry, against which C8 is tested: the method of the source
\* member is kept
LogEntryKeepingMethod(item, log) == Entry(item.name, log, item.compress, item.meta)

\* the member written for 'log'
LogEntry(item, log) == Entry(item.name, log, "deflated", item.meta)

\* the member written for 'signatures'
SignaturesEntry(item, sig) == Entry(item.name, sig, "deflated", item.meta)

\* a faulty CopiedEntry, against which C7 is tested: the member is written with
\* the default method of the destination archive
CopiedEntryDeflated(item, data) == Entry(item.name, data, "deflated", item.meta)

\* zout.writestr(item, data): the member keeps the ZipInfo of the source
CopiedEntry(item, data) == Entry(item.name, data, item.compress, item.meta)

\* zin.read(name): the member, from an intact file; once the file has been
\* truncated under the handle the seek to the member's old header offset finds
\* the end of the file or bytes of the new archive, and read raises BadZipFile
ReadMember(handle, name) ==
    IF handle.stale THEN [st |-> "BadZipFile", data |-> <<>>]
    ELSE ZipRead(handle.infolist, name)

Shot == Entry("screenshot.png", <<1>>, "stored", "t1")

Json == Entry("json", <<2>>, "deflated", "t2")

\* members around the log: none, a screenshot, a screenshot and a json member,
\* the same with the json member corrupt
OtherMembers == {<<>>, <<Shot>>, <<Shot, Json>>, <<Shot, [Json EXCEPT !.bad = TRUE]>>}

Methods == {"stored", "deflated"}

\* the log member, followed or not by a signatures member
SignedLogs ==
    {<<Entry("log", <<7>>, m, "t3")>> : m \in Methods}
    \cup {<<Entry("log", <<7>>, m, "t3"),
            Entry("signatures", SignatureLine(1, <<7>>) \o <<NL>>, n, "t4")>> :
             m \in Methods, n \in Methods}

SourceArchives ==
    {Zip(o \o l) : o \in OtherMembers, l \in SignedLogs}
    \cup {Zip(l \o o) : o \in OtherMembers, l \in SignedLogs}

Line(at, i) == [at |-> at, i |-> i]

ArchiveInit ==
    /\ CodecIdle /\ PatchIdle /\ LoadIdle /\ EditorIdle
    /\ original_log = NoLog /\ variables = {} /\ modified_variables = <<>>
    /\ modified_log \in {[st |-> "ok", log |-> <<9>>]}
    /\ \E cur \in SourceArchives \cup {NoFile} :
       \E oth \in {NoFile, Zip(<<Entry("log", <<5>>, "stored", "t5")>>)} :
          fs = [p \in {"current", "other"} |-> IF p = "current" THEN cur ELSE oth]
    /\ src_path = "current"
    /\ dst_path \in {"current", "other"}
    /\ signing \in
          {[stores |-> Stores({}), encoding |-> "utf-8", ecdsa |-> TRUE],
           [stores |-> Stores({<<1, KeyFile(<<KeyRecord(1)>>)>>}), encoding |-> "utf-8",
            ecdsa |-> FALSE],
           [stores |-> Stores({<<2, KeyFile(<<KeyRecord(1), KeyRecord(0), KeyRecord(2)>>)>>}),
            encoding |-> "utf-8", ecdsa |-> TRUE]}
    /\ zin = NoHandle
    /\ pc = Line("open_src", 0)
    /\ outcome = "none"

\* with zipfile.ZipFile(src_path, 'r') as zin
OpenSource ==
    /\ pc.at = "open_src"
    /\ IF fs[src_path].state = "zip"
       THEN /\ zin' = [open |-> TRUE, infolist |-> fs[src_path].entries, stale |-> FALSE]
            /\ pc' = Line("open_dst", 0)
            /\ UNCHANGED outcome
       ELSE /\ outcome' = IF fs[src_path].state = "absent" THEN "FileNotFoundError"
                          ELSE "BadZipFile"
            /\ pc' = Line("done", 0)
            /\ UNCHANGED zin
    /\ UNCHANGED <<fs, src_path, dst_path, signing, codecVars, patchVars, loadVars,
                   sessionVars, editorVars>>

\* with zipfile.ZipFile(dst_path, 'w', ...) as zout: the file is created or
\* truncated
OpenDest ==
    /\ pc.at = "open_dst"
    /\ fs' = [fs EXCEPT ![dst_path] = [state |-> "writing", entries |-> <<>>]]
    /\ zin' = [zin EXCEPT !.stale = (dst_path = src_path)]
    /\ pc' = Line("copy", 1)
    /\ UNCHANGED <<src_path, dst_path, signing, outcome, codecVars, patchVars, loadVars,
                   sessionVars, editorVars>>

\* one iteration of for item in zin.infolist(); an exception leaves both with
\* blocks, which close zout (writing its directory) and zin
CopyEntry ==
    /\ pc.at = "copy"
    /\ pc.i <= Len(zin.infolist)
    /\ LET item == zin.infolist[pc.i]
           written(e) ==
               /\ fs' = [fs EXCEPT ![dst_path].entries = Append(@, e)]
               /\ pc' = Line("copy", pc.i + 1)
               /\ UNCHANGED <<zin, outcome>>
       IN IF item.name = "log" THEN written(LogEntry(item, modified_log.log))
          ELSE IF item.name = "signatures"
          THEN written(SignaturesEntry(item, _signatures_for_log(modified_log.log)))
          ELSE LET r == ReadMember(zin, item.name)
               IN IF r.st = "ok" THEN written(CopiedEntry(item, r.data))
                  ELSE /\ fs' = [fs EXCEPT ![dst_path].state = "zip"]
                       /\ zin' = [zin EXCEPT !.open = FALSE]
                       /\ outcome' = r.st
                       /\ pc' = Line("done", pc.i)
    /\ UNCHANGED <<src_path, dst_path, signing, codecVars, patchVars, loadVars,
                   sessionVars, editorVars>>

\* the loop is over: zout is closed, then zin
CloseBoth ==
    /\ pc.at = "copy"
    /\ pc.i > Len(zin.infolist)
    /\ fs' = [fs EXCEPT ![dst_path].state = "zip"]
    /\ zin' = [zin EXCEPT !.open = FALSE]
    /\ outcome' = "returned"
    /\ pc' = Line("done", pc.i)
    /\ UNCHANGED <<src_path, dst_path, signing, codecVars, patchVars, loadVars,
                   sessionVars, editorVars>>

ArchiveNext == OpenSource \/ OpenDest \/ CopyEntry \/ CloseBoth

SpecArchive == ArchiveInit /\ [][ArchiveNext]_vars

\* the source handle was opened: its infolist is the source archive
SourceOpened == zin.infolist # <<>>

\* the file holds a member for every member of the source
Complete(file) ==
    /\ file.state = "zip"
    /\ Len(file.entries) = Len(zin.infolist)
    /\ \A i \in 1 .. Len(zin.infolist) : file.entries[i].name = zin.infolist[i].name

\* C6: the file at the source's path is the source or a complete archive at
\* every moment, the source is not open while the destination is open for
\* writing, and after a failure the current save is still the source.
C6_SourceSafe ==
    SourceOpened =>
        /\ fs[src_path] = Zip(zin.infolist) \/ Complete(fs[src_path])
        /\ ~ (zin.open /\ fs[dst_path].state = "writing")
        /\ outcome \notin {"none", "returned"} => fs["current"] = Zip(zin.infolist)

\* a save over the current file has failed, and the current file is an
\* archive with fewer members than the source had
C6_SourceLost ==
    /\ dst_path = src_path
    /\ outcome = "BadZipFile"
    /\ fs["current"].state = "zip"
    /\ Len(fs["current"].entries) < Len(zin.infolist)

\* C7: after save_modified_save returns, the destination has the members of
\* the source under the same names; log holds the new log, signatures exists
\* iff the source had it and holds the signatures of the new log, every other
\* member has the bytes, method and metadata of the source's.
C7_RepackageFrame ==
    outcome = "returned" =>
        LET src == zin.infolist
            dst == fs[dst_path].entries
        IN /\ Complete(fs[dst_path])
           /\ (\E i \in 1 .. Len(dst) : dst[i].name = "signatures")
                 <=> (\E i \in 1 .. Len(src) : src[i].name = "signatures")
           /\ \A i \in 1 .. Len(src) :
                 IF src[i].name = "log" THEN dst[i].data = modified_log.log
                 ELSE IF src[i].name = "signatures"
                 THEN dst[i].data = _signatures_for_log(modified_log.log)
                 ELSE /\ dst[i].data = src[i].data
                      /\ dst[i].compress = src[i].compress
                      /\ dst[i].meta = src[i].meta

\* a save with a stored screenshot, a log and signatures has been repackaged
\* into another file, signed with two keys
C7_Witness ==
    /\ outcome = "returned"
    /\ dst_path = "other"
    /\ signing.ecdsa /\ _find_security_keys = 2
    /\ \E i, j, l \in 1 .. Len(zin.infolist) :
          /\ zin.infolist[i] = Shot
          /\ zin.infolist[j].name = "log"
          /\ zin.infolist[l].name = "signatures"
          /\ fs["other"].entries[l].data # <<>>

\* the members written so far for log and signatures, with the source's
WrittenReplaced ==
    {i \in 1 .. Len(fs[dst_path].entries) : zin.infolist[i].name \in {"log", "signatures"}}

\* the destination has been opened by this call
DestOpened == SourceOpened /\ pc.at \in {"copy", "done"}

\* C8 as stated: the replaced log and signatures members are written with
\* the compression method of the corresponding source member.
C8_SameMethod ==
    DestOpened =>
        \A i \in WrittenReplaced :
            fs[dst_path].entries[i].compress = zin.infolist[i].compress

\* C8, amended: the replaced log and signatures members are written with the
\* deflated method, whatever the method of the source member.
C8_AlwaysDeflated ==
    DestOpened =>
        \A i \in WrittenReplaced : fs[dst_path].entries[i].compress = "deflated"

\* a stored log and a stored signatures member have been replaced
C8_Witness ==
    /\ outcome = "returned"
    /\ WrittenReplaced # {}
    /\ \A i \in WrittenReplaced : zin.infolist[i].compress = "stored"
    /\ \E i \in WrittenReplaced : zin.infolist[i].name = "signatures"

----------------------------------------------------------------------------
(* The editor: load_file, save_edit and save_file of RenpySaveEditorGUI,    *)
(* each handler one step.  A cancelled file dialog is the filename "".      *)
(* dialog is the message box the last handler showed, "none" when it showed *)
(* none.  modified_log, src_path, dst_path and outcome keep what the last   *)
(* save_file computed and passed to save_modified_save.  The rows of the    *)
(* tree are not kept: save_edit reads self.variables[key] first and ends    *)
(* with an uncaught KeyError, changing nothing, for a row whose key is not  *)
(* in self.variables.                                                       *)

\* the loop of save_modified_save from the member i on, written holding the
\* members written so far: [st, entries]
RECURSIVE CopyLoop(_, _, _, _)
CopyLoop(handle, log, i, written) ==
    IF i > Len(handle.infolist) THEN [st |-> "returned", entries |-> written]
    ELSE IF handle.infolist[i].name = "log"
    THEN CopyLoop(handle, log, i + 1, Append(written, LogEntry(handle.infolist[i], log)))
    ELSE IF handle.infolist[i].name = "signatures"
    THEN CopyLoop(handle, log, i + 1,
                  Append(written, SignaturesEntry(handle.infolist[i],
                                                  _signatures_for_log(log))))
    ELSE CHOOSE out \in
             {IF r.st = "ok"
              THEN CopyLoop(handle, log, i + 1,
                            Append(written, CopiedEntry(handle.infolist[i], r.data)))
              ELSE [st |-> r.st, entries |-> written] :
                 r \in {ReadMember(handle, handle.infolist[i].name)}} : TRUE

\* save_modified_save(src_path, dst_path, modified_log) as one call on the
\* files: [fs, st], st "returned" or the exception that left it
save_modified_save(files, src, dst, log) ==
    IF files[src].state = "absent" THEN [fs |-> files, st |-> "FileNotFoundError"]
    ELSE IF files[src].state # "zip" THEN [fs |-> files, st |-> "BadZipFile"]
    ELSE CHOOSE out \in
             {[fs |-> [files EXCEPT ![dst] = Zip(r.entries)], st |-> r.st] :
                 r \in {CopyLoop([open |-> TRUE, infolist |-> files[src].entries,
                                  stale |-> (dst = src)], log, 1, <<>>)}} : TRUE

\* the calls of SpecArchive, step by step, end as the one call does
StepsAgreeWithCall ==
    (pc.at = "done" /\ SourceOpened) =>
        LET before == [fs EXCEPT ![src_path] = Zip(zin.infolist)]
            call == save_modified_save(before, src_path, dst_path, modified_log.log)
        IN call.st = outcome /\ call.fs[dst_path] = fs[dst_path]

\* BINGET of the memo entry i
Get(i) == <<104, i>>

\* {"store.a": "x", "store.b": "x"}, the second value a reference to the first
LogShared ==
    Root(ShortStr(Store(97)) \o ShortStr(<<120>>) \o Put(1)
         \o ShortStr(Store(98)) \o Get(1))

\* {"x": {"store.a": 1}}: no editable variable
LogInner ==
    Root(ShortStr(<<120>>) \o <<125, 40>> \o ShortStr(Store(97)) \o Int1(1) \o <<117>>)

\* ([], None): the root is a list
LogListRoot == <<128, 2, 93, 78, 134, 46>>

\* a file that is no archive
NotAnArchive == [state |-> "text", entries |-> <<>>]

\* the saves the user opens first
FirstSaves == {SaveOf(LogShared), SaveOf(LogTextInt)}

\* the files the user may open next
OtherFiles == {SaveOf(LogInner), SaveOf(LogListRoot), SaveOf(LogPlain), NotAnArchive}

EditorPaths == {"a.save", "b.save", "out.save"}

\* the files the user opens, and the file the user saves to: the edited save
\* is written beside the saves opened, never over one of them
OpenPaths == {"a.save", "b.save"}

SavePaths == {"out.save"}

\* what the user types in the edit dialog: "9" and "store.b"
EditorTexts == {<<57>>, Store(98)}

EditorInit ==
    /\ CodecIdle /\ PatchIdle /\ LoadIdle /\ SessionIdle
    /\ \E a \in FirstSaves : \E b \in OtherFiles :
          fs = [p \in EditorPaths |->
                   IF p = "a.save" THEN a ELSE IF p = "b.save" THEN b ELSE NoFile]
    /\ src_path = "" /\ dst_path = ""
    /\ signing = [stores |-> Stores({<<1, KeyFile(<<KeyRecord(1)>>)>>}),
                  encoding |-> "utf-8", ecdsa |-> TRUE]
    /\ zin = NoHandle /\ pc = [at |-> "idle", i |-> 0] /\ outcome = "none"
    /\ EditorIdle

\* load_file with the file dialog answered by filename; r is what
\* load_save_variables returns or raises
LoadFileWith(filename, r) ==
    IF filename = ""
    THEN /\ dialog' = "none"
         /\ UNCHANGED <<original_log, variables, modified_variables, current_file>>
    ELSE IF r.raised # "none"
    THEN /\ dialog' = "load_error"
         /\ UNCHANGED <<original_log, variables, modified_variables, current_file>>
    ELSE /\ variables' = r.variables
         /\ original_log' = r.log
         /\ IF r.variables = {}
            THEN /\ dialog' = "warning"
                 /\ UNCHANGED <<modified_variables, current_file>>
            ELSE /\ current_file' = filename
                 /\ modified_variables' = <<>>
                 /\ dialog' = "none"

load_file ==
    /\ \E filename \in OpenPaths \cup {""} :
          \E r \in {IF filename = "" THEN NotLoaded
                    ELSE load_save_variables(fs[filename])} : LoadFileWith(filename, r)
    /\ UNCHANGED <<modified_log, signatures, codecVars, patchVars, loadVars, archiveVars>>

\* save_edit of the edit dialog: a text that parses is recorded and the
\* dialog closes without a message box, any other is answered 'Invalid Value'
save_edit ==
    \E e \in variables : \E txt \in EditorTexts :
        \E parsed \in {ParseEdit(e.v, txt)} :
           /\ IF parsed.ok
              THEN /\ modified_variables' = Assign(modified_variables, e.k, parsed.v)
                   /\ dialog' = "none"
              ELSE /\ dialog' = "invalid_value"
                   /\ UNCHANGED modified_variables
           /\ UNCHANGED <<original_log, variables, modified_log, signatures, current_file,
                          codecVars, patchVars, loadVars, archiveVars>>

\* a faulty PatchAll, against which C12 is tested: an edit that fails to
\* patch is passed over and the others are applied
PatchAllSkipping(log, edits) ==
    LET RECURSIVE skip(_, _)
        skip(l, es) ==
            IF es = <<>> THEN [st |-> "ok", log |-> l]
            ELSE CHOOSE out \in
                     {skip(IF r.st = "ok" THEN r.log ELSE l, Tail(es)) :
                         r \in {patch_variable_in_log(l, es[1].k, es[1].v)}} : TRUE
    IN IF log.some THEN skip(log.bytes, edits) ELSE [st |-> "ok", log |-> <<>>]

\* the loop of save_file from self.original_log, which is None before a load
\* and after a load that failed: len(None) raises in the first patch, after
\* key.encode
PatchAll(log, edits) ==
    IF log.some THEN FoldEdits(log.bytes, edits)
    ELSE IF Latin1Ok(edits[1].k) THEN PatchFailed("TypeError")
    ELSE PatchFailed("UnicodeEncodeError")

\* the try block of save_file for the chosen filename: folded is what the
\* loop gives, saved what save_modified_save gives when it is called
SaveFileWith(filename, folded, saved) ==
    /\ modified_log' = folded
    /\ IF folded.st # "ok"
       THEN /\ dialog' = "save_error"
            /\ UNCHANGED <<fs, src_path, dst_path, outcome>>
       ELSE /\ fs' = saved.fs
            /\ src_path' = current_file
            /\ dst_path' = filename
            /\ outcome' = saved.st
            /\ dialog' = IF saved.st = "returned" THEN "success" ELSE "save_error"

\* save_file; the file dialog is answered by a path or cancelled
save_file ==
    /\ IF current_file = "" \/ modified_variables = <<>>
       THEN /\ dialog' = "info"
            /\ UNCHANGED <<modified_log, fs, src_path, dst_path, outcome>>
       ELSE \E filename \in SavePaths \cup {""} :
               IF filename = ""
               THEN /\ dialog' = "none"
                    /\ UNCHANGED <<modified_log, fs, src_path, dst_path, outcome>>
               ELSE \E folded \in {PatchAll(original_log, modified_variables)} :
                    \E saved \in {IF folded.st = "ok"
                                  THEN save_modified_save(fs, current_file, filename,
                                                          folded.log)
                                  ELSE [fs |-> fs, st |-> "none"]} :
                       SaveFileWith(filename, folded, saved)
    /\ UNCHANGED <<original_log, variables, modified_variables, signatures, current_file,
                   signing, zin, pc, codecVars, patchVars, loadVars>>

EditorNext == load_file \/ save_edit \/ save_file

SpecEditor == EditorInit /\ [][EditorNext]_vars

\* the log with every edit patched in turn, from the log of the session:
\* [ok, log], ok = FALSE when one of the patches fails or there is no log
RECURSIVE EveryPatch(_, _)
EveryPatch(bytes, edits) ==
    IF edits = <<>> THEN [ok |-> TRUE, log |-> bytes]
    ELSE LET r == patch_variable_in_log(bytes, edits[1].k, edits[1].v)
         IN IF r.st = "ok" THEN EveryPatch(r.log, Tail(edits))
            ELSE [ok |-> FALSE, log |-> <<>>]

PatchedThrough(log, edits) ==
    IF log.some THEN EveryPatch(log.bytes, edits) ELSE [ok |-> FALSE, log |-> <<>>]

\* the step is one of save_file that went into its try block
SaveAttempt == dialog' \in {"success", "save_error"}

\* C12: save_file folds patch_variable_in_log over the pending edits from
\* original_log and writes the destination only if every edit patched: when a
\* patch fails save_modified_save is not called, no file is created or
\* changed, and original_log and the pending edits are as they were; when all
\* patch, the log written is the log with every edit patched.
C12_AllOrNothing ==
    [][SaveAttempt =>
          /\ original_log' = original_log
          /\ modified_variables' = modified_variables
          /\ IF PatchedThrough(original_log, modified_variables).ok
             THEN /\ src_path' = current_file
                  /\ outcome' = "returned" =>
                        ZipRead(fs'[dst_path'].entries, "log").data
                           = PatchedThrough(original_log, modified_variables).log
             ELSE /\ dialog' = "save_error"
                  /\ fs' = fs
                  /\ UNCHANGED <<src_path, dst_path, outcome>>]_vars

\* save_file has failed on the second of two edits, the first of which
\* patches, and no file was written
C12_Witness ==
    /\ dialog = "save_error"
    /\ modified_log.st = "AmbiguousEncoding"
    /\ Len(modified_variables) = 2
    /\ patch_variable_in_log(original_log.bytes, modified_variables[1].k,
                             modified_variables[1].v).st = "ok"
    /\ fs["out.save"] = NoFile
    /\ outcome = "none"

\* C13: the session is consistent after any sequence of load_file, save_edit
\* and save_file: original_log is the log of the archive at current_file,
\* variables is the table of that archive, every pending edit is of a key of
\* variables, and the archive save_file has written holds the patched log of
\* the archive it repackaged.
C13_SessionConsistent ==
    /\ current_file # "" =>
          /\ original_log = load_save_variables(fs[current_file]).log
          /\ variables = load_save_variables(fs[current_file]).variables
          /\ \A i \in 1 .. Len(modified_variables) :
                \E e \in variables : e.k = modified_variables[i].k
    /\ dialog = "success" =>
          /\ ZipRead(fs[src_path].entries, "log").st = "ok"
          /\ ZipRead(fs[dst_path].entries, "log").data
                = EveryPatch(ZipRead(fs[src_path].entries, "log").data,
                             modified_variables).log

\* the same while every load has found editable variables: there the
\* session is consistent
C13_AfterSuccessfulLoads ==
    (original_log.some /\ variables # {}) => C13_SessionConsistent

\* an edit made on a.save has been saved after b.save, a save without editable
\* variables, was opened: the archive written has the members of a.save and
\* the patched log of b.save
C13_ForeignLog ==
    /\ dialog = "success"
    /\ current_file = "a.save" /\ src_path = "a.save" /\ dst_path = "out.save"
    /\ variables = {}
    /\ original_log.bytes = ZipRead(fs["b.save"].entries, "log").data
    /\ original_log.bytes # ZipRead(fs["a.save"].entries, "log").data
    /\ ZipRead(fs["out.save"].entries, "log").data
          = EveryPatch(ZipRead(fs["b.save"].entries, "log").data, modified_variables).log

====
